---- MODULE Spec2Model ----
(***************************************************************************)
(* Kindle to Obsidian: the clippings parser (src/src/core/parser.py) and   *)
(* the incremental Markdown writer (src/src/core/writer.py).               *)
(*                                                                         *)
(* Text is modelled as a tuple of one-character strings, a file as the     *)
(* tuple of its lines (Python's '\n'.join(lines) of the writer), a line as *)
(* a record Line(k, t, n): its format, the text and the numbers it prints. *)
(***************************************************************************)
EXTENDS Integers, Sequences, FiniteSets, TLC

VARIABLES
    clippings,   \* My Clippings.txt: the segments between the boundary markers
    vault,       \* the files directly inside the output directory: name -> lines
    importLogs,  \* the files of the import-log subfolder: timestamp -> lines
    dirs,        \* which directories exist: [out, logs]
    clock,       \* datetime.now(), to the second
    cfg,         \* the configuration record handed to sync_highlights
    runs,        \* how many sync runs have been made
    run,         \* what the last sync run saw and did
    prev,        \* the same for the run before it
    fin,         \* argument of the pure function applied alone
    fout,        \* its result
    gui          \* the SyncFrame of the GUI, its worker threads and Tk's queue

vars == <<clippings, vault, importLogs, dirs, clock, cfg, runs, run, prev, fin, fout, gui>>

coreVars == <<clippings, vault, importLogs, dirs, clock, cfg, runs, run, prev>>

syncVars == <<coreVars, gui>>

(***************************************************************************)
(* Optional values                                                         *)
(***************************************************************************)
\* Python's None for an Optional[int]
None == -1

\* `x or d` of Python for an Optional[int]: None and 0 are both falsy
OrElse(x, d) == IF x = None \/ x = 0 THEN d ELSE x

(***************************************************************************)
(* Text                                                                    *)
(***************************************************************************)
Whitespace == {" ", "\t", "\n"}

RECURSIVE lstrip(_)
lstrip(s) ==
    IF s # <<>> /\ Head(s) \in Whitespace THEN lstrip(Tail(s)) ELSE s

RECURSIVE rstrip(_)
rstrip(s) ==
    IF s # <<>> /\ s[Len(s)] \in Whitespace
    THEN rstrip(SubSeq(s, 1, Len(s) - 1))
    ELSE s

\* str.strip()
strip(s) == rstrip(lstrip(s))

\* str.startswith
startswith(s, p) == Len(p) <= Len(s) /\ SubSeq(s, 1, Len(p)) = p

\* All tuples over S of length at most n
RECURSIVE SeqsUpTo(_, _)
SeqsUpTo(S, n) ==
    IF n = 0 THEN {<<>>}
    ELSE LET shorter == SeqsUpTo(S, n - 1)
         IN  shorter \cup {Append(s, x) : s \in shorter, x \in S}

(***************************************************************************)
(* Identity hasher: generate_hash                                          *)
(***************************************************************************)
HexDigits == <<"0", "1", "2", "3", "4", "5", "6", "7",
               "8", "9", "a", "b", "c", "d", "e", "f">>

HexAlphabet == {HexDigits[i] : i \in 1..16}

\* str.encode('utf-8') of the characters the model uses: one byte each
Utf8(c) ==
    CASE c = " "  -> 32
      [] c = "\t" -> 9
      [] c = "\n" -> 10
      [] c = "!"  -> 33
      [] c = ":"  -> 58
      [] c = "."  -> 46
      [] c = "A"  -> 65
      [] c = "B"  -> 66
      [] c = "a"  -> 97
      [] c = "b"  -> 98
      [] c = "c"  -> 99
      [] c = "n"  -> 110
      [] OTHER    -> 63

DigestLen == 64
HashLen == 8
DigestModulus == 16777216

\* One compression step of the digest over the next byte.
DigestStep(acc, byte) == ((acc * 33) + byte + 1) % DigestModulus

RECURSIVE DigestFold(_, _)
DigestFold(acc, s) ==
    IF s = <<>> THEN acc ELSE DigestFold(DigestStep(acc, Utf8(Head(s))), Tail(s))

RECURSIVE Pow16(_)
Pow16(n) == IF n = 0 THEN 1 ELSE 16 * Pow16(n - 1)

\* hashlib.sha256(bytes).hexdigest(): a deterministic digest of the bytes,
\* DigestLen characters of the lowercase hexadecimal alphabet.  SHA-256 itself
\* is replaced by a small polynomial digest; only determinism, the alphabet and
\* the length are taken from it.
hexdigest(s) ==
    LET acc == DigestFold(5381, s)
    IN  [i \in 1..DigestLen |->
            HexDigits[(((acc \div Pow16((i - 1) % 6)) + i) % 16) + 1]]

\* A variant that hashes the raw content, leading and trailing whitespace included
generate_hash_unstripped(content) == SubSeq(hexdigest(content), 1, HashLen)

\* parser.py generate_hash
generate_hash(content) == SubSeq(hexdigest(strip(content)), 1, HashLen)

(***************************************************************************)
(* Record parser: parse_clippings                                          *)
(*                                                                         *)
(* A segment is the tuple of its lines.  A line is [text, info]: its       *)
(* characters, and what REGEX_INFO extracts from it (NoInfo when the line  *)
(* does not match): the record type, the page, the location as <<>>,       *)
(* <<n>> or <<n, m>>, and the date text (0 when dateutil cannot parse it,  *)
(* else the moment it denotes).                                            *)
(***************************************************************************)
NoInfo == [type |-> "", page |-> None, location |-> <<>>, added |-> 0]

RawLine(text, info) == [text |-> text, info |-> info]

\* `not line.strip()`
IsBlank(line) == strip(line.text) = <<>>

RECURSIVE DropLeadingBlank(_)
DropLeadingBlank(lines) ==
    IF lines # <<>> /\ IsBlank(Head(lines)) THEN DropLeadingBlank(Tail(lines)) ELSE lines

RECURSIVE DropTrailingBlank(_)
DropTrailingBlank(lines) ==
    IF lines # <<>> /\ IsBlank(lines[Len(lines)])
    THEN DropTrailingBlank(SubSeq(lines, 1, Len(lines) - 1))
    ELSE lines

\* raw.strip() followed by raw.split('\n'), on the lines of the segment
StripSegment(seg) ==
    LET ls == DropTrailingBlank(DropLeadingBlank(seg))
    IN  IF ls = <<>> THEN <<>>
        ELSE LET a == [ls EXCEPT ![1].text = lstrip(@)]
             IN  [a EXCEPT ![Len(a)].text = rstrip(@)]

\* Index of the first non-blank line at or after `from`, 0 when there is none
RECURSIVE FirstNonBlank(_, _)
FirstNonBlank(lines, from) ==
    IF from > Len(lines) THEN 0
    ELSE IF ~IsBlank(lines[from]) THEN from
    ELSE FirstNonBlank(lines, from + 1)

Max(S) == CHOOSE x \in S : \A y \in S : y <= x

Unknown == <<"U", "n", "k", "n", "o", "w", "n">>

\* REGEX_TITLE_AUTHOR = ^(.+)\s*\(([^)]+)\)\s*$ on the stripped title line: the
\* greedy (.+) takes the rightmost "(" that is followed by a non-empty text
\* without ")" up to the closing ")" that ends the line.
TitleAuthor(title_line) ==
    LET n == Len(title_line)
        opens == {i \in 2..(n - 2) :
                     /\ title_line[i] = "("
                     /\ \A k \in (i + 1)..(n - 1) : title_line[k] # ")"}
    IN  IF n >= 4 /\ title_line[n] = ")" /\ opens # {}
        THEN [title  |-> strip(SubSeq(title_line, 1, Max(opens) - 1)),
              author |-> strip(SubSeq(title_line, Max(opens) + 1, n - 1))]
        ELSE [title |-> strip(title_line), author |-> Unknown]

\* Lines 113-125: loc_start and loc_end from the location group
Location(location) ==
    IF Len(location) = 2 THEN [loc_start |-> location[1], loc_end |-> location[2]]
    ELSE IF Len(location) = 1 THEN [loc_start |-> location[1], loc_end |-> location[1]]
    ELSE [loc_start |-> None, loc_end |-> None]

\* Lines 127-132: parse_date, None when it raises
ParsedDate(added) == IF added = 0 THEN None ELSE added

\* parse_date gives a naive datetime for a date text without a zone and a
\* timezone-aware one for a text that names a zone or an offset ("... GMT+01:00");
\* the moments of the aware ones are written from AwareFrom on
AwareFrom == 10

TzAware(date) == date # None /\ date >= AwareFrom

\* '\n'.join(content_lines)
RECURSIVE JoinLines(_)
JoinLines(lines) ==
    IF lines = <<>> THEN <<>>
    ELSE IF Len(lines) = 1 THEN Head(lines).text
    ELSE Head(lines).text \o <<"\n">> \o JoinLines(Tail(lines))

\* Lines 134-141: everything after the info line, without the leading and
\* trailing blank lines
ContentText(lines, info_idx) ==
    JoinLines(DropTrailingBlank(DropLeadingBlank(SubSeq(lines, info_idx + 1, Len(lines)))))

\* The device's message, kept as one character of the text
ClippingLimit == "You have reached the clipping limit for this item"

\* A variant that finds the message in no body
ContainsNever(text, c) == FALSE

\* Line 146: `'You have reached ...' in content_text`
Contains(text, c) == \E i \in 1..Len(text) : text[i] = c

NoClipping == [kept |-> FALSE, title |-> <<>>, author |-> <<>>, clipping |-> <<>>]

\* A variant that keeps bookmarks as clippings
KeepsBookmark(clip_type) == FALSE

\* Line 110: `if clip_type == 'bookmark': continue`
IsBookmark(clip_type) == clip_type = "bookmark"

\* str.lower() of the record types REGEX_INFO can capture
Lower(type) ==
    CASE type = "Highlight" -> "highlight"
      [] type = "Note"      -> "note"
      [] type = "Bookmark"  -> "bookmark"
      [] OTHER              -> type

\* The body of the loop of parse_clippings (lines 57-168) for one segment:
\* the clipping it yields with its title and author, or NoClipping when the
\* segment is skipped.
ParseSegment(seg) ==
    LET lines     == StripSegment(seg)
        title_idx == FirstNonBlank(lines, 1)
        info_idx  == IF title_idx = 0 THEN 0 ELSE FirstNonBlank(lines, title_idx + 1)
    IN  IF lines = <<>> \/ title_idx = 0 \/ info_idx = 0 THEN NoClipping
        ELSE
        LET ta        == TitleAuthor(strip(lines[title_idx].text))
            info      == lines[info_idx].info
            clip_type == Lower(info.type)
            loc       == Location(info.location)
            content   == ContentText(lines, info_idx)
        IN  IF info = NoInfo THEN NoClipping
            ELSE IF IsBookmark(clip_type) THEN NoClipping
            ELSE IF content = <<>> THEN NoClipping
            ELSE IF Contains(content, ClippingLimit) THEN NoClipping
            ELSE [kept     |-> TRUE,
                  title    |-> ta.title,
                  author   |-> ta.author,
                  clipping |-> [type      |-> clip_type,
                                content   |-> content,
                                hash      |-> generate_hash(content),
                                page      |-> info.page,
                                loc_start |-> loc.loc_start,
                                loc_end   |-> loc.loc_end,
                                date      |-> ParsedDate(info.added),
                                notes     |-> <<>>]]

\* Index of the book with this title in the insertion-ordered dict, 0 if none
BookIndex(books, title) ==
    IF \E i \in 1..Len(books) : books[i].title = title
    THEN CHOOSE i \in 1..Len(books) : books[i].title = title
    ELSE 0

\* A variant that keeps the author a book got from its first segment
AddClippingFirstAuthor(books, p) ==
    LET i == IF \E k \in 1..Len(books) : books[k].title = p.title
             THEN CHOOSE k \in 1..Len(books) : books[k].title = p.title
             ELSE 0
    IN  IF i = 0
        THEN Append(books, [title |-> p.title, author |-> p.author,
                            clippings |-> <<p.clipping>>])
        ELSE [books EXCEPT ![i].clippings = Append(@, p.clipping)]

\* Lines 164-168: books[title] gets the title, the author of this segment and
\* the clipping appended
AddClipping(books, p) ==
    LET i == BookIndex(books, p.title)
    IN  IF i = 0
        THEN Append(books, [title |-> p.title, author |-> p.author,
                            clippings |-> <<p.clipping>>])
        ELSE [books EXCEPT ![i] = [title |-> p.title, author |-> p.author,
                                   clippings |-> Append(@.clippings, p.clipping)]]

RECURSIVE ParseFrom(_, _)
ParseFrom(books, segs) ==
    IF segs = <<>> THEN books
    ELSE LET p == ParseSegment(Head(segs))
         IN  ParseFrom(IF p.kept THEN AddClipping(books, p) ELSE books, Tail(segs))

\* parse_clippings: the books in the order the dict holds them, each with its
\* clippings in parse order
parse_clippings(segs) == ParseFrom(<<>>, segs)

(***************************************************************************)
(* Reconciler: deduplicate_partial_notes and link_notes_to_highlights      *)
(***************************************************************************)
\* Line 186: the key notes are grouped by
LocKey(note) == <<note.loc_start, note.loc_end>>

\* list.sort(key=len(content), reverse=True): stable, longest first
RECURSIVE InsertByLength(_, _)
InsertByLength(sorted, x) ==
    IF sorted = <<>> THEN <<x>>
    ELSE IF Len(x.content) > Len(Head(sorted).content) THEN <<x>> \o sorted
    ELSE <<Head(sorted)>> \o InsertByLength(Tail(sorted), x)

RECURSIVE SortByLength(_, _)
SortByLength(sorted, rest) ==
    IF rest = <<>> THEN sorted
    ELSE SortByLength(InsertByLength(sorted, Head(rest)), Tail(rest))

\* A variant that drops a note only when a kept note has the very same body
IsPrefixOfKeptEqualOnly(kept, note) ==
    \E i \in 1..Len(kept) : kept[i].content = note.content

\* Lines 201-205: some already kept note starts with this note's body
IsPrefixOfKept(kept, note) ==
    \E i \in 1..Len(kept) : startswith(kept[i].content, note.content)

\* Lines 199-207: the greedy pass over the notes of one location
RECURSIVE KeepLongest(_, _)
KeepLongest(kept, loc_notes) ==
    IF loc_notes = <<>> THEN kept
    ELSE KeepLongest(IF IsPrefixOfKept(kept, Head(loc_notes))
                     THEN kept
                     ELSE Append(kept, Head(loc_notes)),
                     Tail(loc_notes))

\* The keys of by_location in insertion order
RECURSIVE LocKeys(_, _)
LocKeys(keys, notes) ==
    IF notes = <<>> THEN keys
    ELSE LocKeys(IF \E i \in 1..Len(keys) : keys[i] = LocKey(Head(notes))
                 THEN keys
                 ELSE Append(keys, LocKey(Head(notes))),
                 Tail(notes))

NotesAt(notes, key) == SelectSeq(notes, LAMBDA n : LocKey(n) = key)

\* Lines 190-209 for one location
DedupGroup(loc_notes) ==
    IF Len(loc_notes) = 1 THEN loc_notes
    ELSE KeepLongest(<<>>, SortByLength(<<>>, loc_notes))

RECURSIVE DedupGroups(_, _)
DedupGroups(keys, notes) ==
    IF keys = <<>> THEN <<>>
    ELSE DedupGroup(NotesAt(notes, Head(keys))) \o DedupGroups(Tail(keys), notes)

\* parser.py deduplicate_partial_notes
deduplicate_partial_notes(notes) ==
    IF notes = <<>> THEN notes ELSE DedupGroups(LocKeys(<<>>, notes), notes)

\* datetime.min
DateMin == 0

\* The sort key (x['loc_start'] or 0, x['date'] or datetime.min)
SortKey(x) == <<OrElse(x.loc_start, 0), IF x.date = None THEN DateMin ELSE x.date>>

\* A variant that compares the locations alone
KeyLessLocationOnly(a, b) == a[1] < b[1]

\* Python's order of tuples
KeyLess(a, b) == a[1] < b[1] \/ (a[1] = b[1] /\ a[2] < b[2])

\* list.sort(key=SortKey): stable, ascending
RECURSIVE InsertByKey(_, _)
InsertByKey(sorted, x) ==
    IF sorted = <<>> THEN <<x>>
    ELSE IF KeyLess(SortKey(x), SortKey(Head(sorted))) THEN <<x>> \o sorted
    ELSE <<Head(sorted)>> \o InsertByKey(Tail(sorted), x)

RECURSIVE SortByKey(_, _)
SortByKey(sorted, rest) ==
    IF rest = <<>> THEN sorted
    ELSE SortByKey(InsertByKey(sorted, Head(rest)), Tail(rest))

\* Tuple comparison of two sort keys: with equal first components the dates
\* are compared, and `<` between an aware and a naive datetime (datetime.min
\* is naive) raises TypeError
CompareRaises(a, b) ==
    /\ OrElse(a.loc_start, 0) = OrElse(b.loc_start, 0)
    /\ TzAware(a.date) # TzAware(b.date)

\* list.sort raises when it compares such a pair; it cannot order two items
\* of equal first component without comparing them or a chain between them
SortRaises(items) ==
    \E i, j \in 1..Len(items) : i # j /\ CompareRaises(items[i], items[j])

\* A variant whose range excludes the highlight's last location
InRangeExclusive(highlight, note) ==
    /\ highlight.loc_start # None
    /\ note.loc_start # None
    /\ highlight.loc_start <= note.loc_start
    /\ note.loc_start < OrElse(highlight.loc_end, highlight.loc_start)

\* Lines 233-242: the note's location falls within the highlight's range
InRange(highlight, note) ==
    /\ highlight.loc_start # None
    /\ note.loc_start # None
    /\ highlight.loc_start <= note.loc_start
    /\ note.loc_start <= OrElse(highlight.loc_end, highlight.loc_start)

\* Lines 230-243: every highlight gets the notes within its range
NotesInRange(highlight, notes) == SelectSeq(notes, LAMBDA n : InRange(highlight, n))

\* A variant that nests a note under the first highlight that holds it alone
LinkNotesFirstOnly(highlights, notes) ==
    [i \in 1..Len(highlights) |->
        [highlights[i] EXCEPT !.notes =
            SelectSeq(notes, LAMBDA n :
                /\ InRange(highlights[i], n)
                /\ \A k \in 1..(i - 1) : ~InRange(highlights[k], n))]]

\* Lines 229-243: the loop over the highlights
LinkNotes(highlights, notes) ==
    [i \in 1..Len(highlights) |->
        [highlights[i] EXCEPT !.notes = NotesInRange(highlights[i], notes)]]

\* Lines 246-249
LinkedNoteHashes(highlights) ==
    UNION {{highlights[i].notes[j].hash : j \in 1..Len(highlights[i].notes)} :
              i \in 1..Len(highlights)}

\* Lines 227 and 255: one of the two sorts of link_notes_to_highlights raises
link_raises(clips) ==
    LET highlights == SelectSeq(clips, LAMBDA c : c.type = "highlight")
        notes      == deduplicate_partial_notes(SelectSeq(clips, LAMBDA c : c.type = "note"))
        linked     == LinkNotes(highlights, notes)
        unlinked   == SelectSeq(notes, LAMBDA n : n.hash \notin LinkedNoteHashes(linked))
    IN  \/ SortRaises(highlights)
        \/ /\ SortRaises(clips)      \* every pair of the second sort is a pair of clips
           /\ SortRaises(linked \o unlinked)

\* parser.py link_notes_to_highlights, when it returns
link_notes_to_highlights(clips) ==
    LET highlights == SortByKey(<<>>, SelectSeq(clips, LAMBDA c : c.type = "highlight"))
        notes      == deduplicate_partial_notes(SelectSeq(clips, LAMBDA c : c.type = "note"))
        linked     == LinkNotes(highlights, notes)
        unlinked   == SelectSeq(notes, LAMBDA n : n.hash \notin LinkedNoteHashes(linked))
    IN  SortByKey(<<>>, linked \o unlinked)

(***************************************************************************)
(* Configuration record                                                    *)
(*                                                                         *)
(* Every key holds a set: empty when the key is absent from the record,    *)
(* else the one value it is set to.                                        *)
(***************************************************************************)
\* dict.get(key, default)
Get(option, default) == IF option = {} THEN default ELSE CHOOSE v \in option : TRUE

\* The default of output.min_highlights_for_own_file
DefaultMinHighlights == 3

DefaultShortNotesFilename == <<"Short Notes", ".md">>

(***************************************************************************)
(* Lines and files                                                         *)
(***************************************************************************)
Line(k, t, n) == [k |-> k, t |-> t, n |-> n]

Rule == Line("---", <<>>, <<>>)
Blank == Line("", <<>>, <<>>)

\* f'<a href="kindle:{hash}"></a>'
Marker(hash) == Line("<a href=\"kindle:{}\"></a>", hash, <<>>)

NoFiles == <<>>

\* os.path.isfile(filepath) of a file directly inside the output directory
IsFile(files, name) == name \in DOMAIN files

\* open(filepath, 'w') and one write
Create(files, name, lines) ==
    [f \in DOMAIN files \cup {name} |-> IF f = name THEN lines ELSE files[f]]

\* open(filepath, 'a'), write('\n'), write('\n'.join(lines))
AppendTo(files, name, lines) == [files EXCEPT ![name] = @ \o lines]

(***************************************************************************)
(* Existing-state scanner: scan_existing_hashes                            *)
(***************************************************************************)
\* REGEX_KINDLE_HASH on one line: the identity of a marker of 8 characters
\* of [a-f0-9]
KindleHashes(line) ==
    IF /\ line.k = Marker(<<>>).k
       /\ Len(line.t) = 8
       /\ \A i \in 1..Len(line.t) : line.t[i] \in HexAlphabet
    THEN {line.t}
    ELSE {}

\* A variant that takes every name for a Markdown file
EndsWithAnything(name) == TRUE

\* filename.endswith('.md')
EndsWithMd(name) == name # <<>> /\ name[Len(name)] = ".md"

\* A line holding bytes that are no UTF-8 text: f.read() raises on it
Undecodable == Line("\\xff", <<>>, <<>>)

\* os.listdir(output_dir): the names directly inside the directory; a name
\* with "/" is that of a file inside a subdirectory, and the listing holds the
\* subdirectory
listdir(files) ==
    {IF \E i \in 1..Len(f) : f[i] = "/"
     THEN SubSeq(f, 1, (CHOOSE i \in 1..Len(f) :
                           f[i] = "/" /\ \A j \in 1..(i - 1) : f[j] # "/") - 1)
     ELSE f : f \in DOMAIN files}

\* Lines 282-290: open and read raise on a directory and on a file that
\* cannot be read; the exception is caught and the entry skipped
ReadRaises(files, name) ==
    \/ name \notin DOMAIN files
    \/ \E i \in 1..Len(files[name]) : files[name][i] = Undecodable

\* REGEX_KINDLE_HASH.findall(content) of one entry of the listing
FileHashes(files, name) ==
    IF ReadRaises(files, name) THEN {}
    ELSE UNION {KindleHashes(files[name][i]) : i \in 1..Len(files[name])}

\* parser.py scan_existing_hashes: the keys of the index it returns (the
\* filename an identity maps to depends on the order of os.listdir and is
\* read nowhere)
scan_existing_hashes(d, files) ==
    IF ~d.out THEN {}
    ELSE UNION {FileHashes(files, name) : name \in {f \in listdir(files) : EndsWithMd(f)}}

(***************************************************************************)
(* Incremental writer                                                      *)
(***************************************************************************)
InvalidChars == {"<", ">", ":", "\"", "/", "\\", "|", "?", "*"}

RECURSIVE StripChar(_, _)
StripChar(s, c) ==
    IF s # <<>> /\ Head(s) = c THEN StripChar(Tail(s), c)
    ELSE IF s # <<>> /\ s[Len(s)] = c THEN StripChar(SubSeq(s, 1, Len(s) - 1), c)
    ELSE s

MaxFilenameLength == 128

\* str.rsplit(' ', 1)[0]
BeforeLastSpace(s) ==
    IF \E i \in 1..Len(s) : s[i] = " "
    THEN SubSeq(s, 1, Max({i \in 1..Len(s) : s[i] = " "}) - 1)
    ELSE s

\* writer.py sanitize_filename (NFKD leaves the characters of the model as
\* they are; none of them is a control character)
sanitize_filename(filename) ==
    LET clean == StripChar(strip(SelectSeq(filename, LAMBDA c : c \notin InvalidChars)), ".")
    IN  IF Len(clean) > MaxFilenameLength
        THEN BeforeLastSpace(SubSeq(clean, 1, MaxFilenameLength))
        ELSE clean

\* The state the writer acts on: the files of the output directory, those of
\* the import-log folder, the directories that exist, and the lines passed to
\* the logging callback so far
World(files, logs, d, log) ==
    [vault |-> files, importLogs |-> logs, dirs |-> d, log |-> log, raised |-> FALSE]

\* An exception leaves the call: nothing after it is executed
Raise(w) == [w EXCEPT !.raised = TRUE]

Log(w, line) == IF w.raised THEN w ELSE [w EXCEPT !.log = Append(@, line)]

\* A variant that counts an identity as new although the index holds it
IsNewAlways(hash, existing_hashes) == TRUE

\* `c['hash'] not in existing_hashes`
IsNew(hash, existing_hashes) == hash \notin existing_hashes

\* Lines 66-68: the nested notes of a clipping without the known ones
FilterNotes(c, existing_hashes) ==
    [c EXCEPT !.notes = SelectSeq(@, LAMBDA n : IsNew(n.hash, existing_hashes))]

\* Lines 61-68 and 179-185: the new top-level clippings of a reconciled book
NewClippings(linked, existing_hashes) ==
    SelectSeq([i \in 1..Len(linked) |-> FilterNotes(linked[i], existing_hashes)],
              LAMBDA c : IsNew(c.hash, existing_hashes))

\* A variant that sets a rule before the marker of every note, as before
\* the marker of a top-level clipping
RECURSIVE NoteLinesRuled(_)
NoteLinesRuled(notes) ==
    IF notes = <<>> THEN <<>>
    ELSE <<Rule, Marker(Head(notes).hash), Line("> ", Head(notes).content, <<>>)>>
         \o NoteLinesRuled(Tail(notes))

\* A variant that writes the quoted body of a note before its marker
RECURSIVE NoteLinesBodyFirst(_)
NoteLinesBodyFirst(notes) ==
    IF notes = <<>> THEN <<>>
    ELSE <<Line("> ", Head(notes).content, <<>>), Marker(Head(notes).hash)>>
         \o NoteLinesBodyFirst(Tail(notes))

\* Lines 102-105 and 212-215: the marker and the quoted body of every note
RECURSIVE NoteLines(_)
NoteLines(notes) ==
    IF notes = <<>> THEN <<>>
    ELSE <<Marker(Head(notes).hash), Line("> ", Head(notes).content, <<>>)>>
         \o NoteLines(Tail(notes))

\* Lines 96-107 and 206-217: the block of every new clipping
RECURSIVE ClippingLines(_)
ClippingLines(new_clippings) ==
    IF new_clippings = <<>> THEN <<>>
    ELSE <<Rule, Marker(Head(new_clippings).hash), Line("text", Head(new_clippings).content, <<>>)>>
         \o NoteLines(Head(new_clippings).notes)
         \o <<Blank>>
         \o ClippingLines(Tail(new_clippings))

\* A variant that takes every target file for a new one
NewFileAlways(file_exists) == TRUE

\* Lines 80 and 162: `if not file_exists`
NewFile(file_exists) == ~file_exists

TagLine(tag) == Line("  - ", tag, <<>>)

\* Lines 83-93: the frontmatter of a new book file
BookFrontmatter(config, author) ==
    <<Rule>>
    \o (IF Get(config.include_author, TRUE) THEN <<Line("author: ", author, <<>>)>> ELSE <<>>)
    \o (IF Get(config.include_tags, TRUE)
        THEN <<Line("tags:", <<>>, <<>>), TagLine(Get(config.default_tag, <<"books">>))>>
        ELSE <<>>)
    \o <<Rule, Blank>>

\* A variant that writes although dry_run is set
SkipsWrite(dry_run) == FALSE

\* `if not dry_run:` guards every write (lines 111, 226, 330)
DryRun(dry_run) == dry_run

\* Lines 116-120 and 231-235: mode 'a' if the file exists, else 'w'
WriteFile(files, name, lines) ==
    IF IsFile(files, name) THEN AppendTo(files, name, lines) ELSE Create(files, name, lines)

\* writer.py write_book_file
write_book_file(w, book_data, existing_hashes, config, dry_run) ==
    LET clips         == link_notes_to_highlights(book_data.clippings)
        new_clippings == NewClippings(clips, existing_hashes)
        filename      == sanitize_filename(book_data.title) \o <<".md">>
        file_exists   == IsFile(w.vault, filename)
        lines         == (IF NewFile(file_exists)
                          THEN BookFrontmatter(config, book_data.author)
                          ELSE <<>>)
                         \o ClippingLines(new_clippings)
                         \o <<Rule>>
    IN  IF w.raised
        THEN [w |-> w, new_count |-> 0, new_clippings |-> <<>>]
        ELSE IF link_raises(book_data.clippings)
        THEN [w |-> Raise(w), new_count |-> 0, new_clippings |-> <<>>]
        ELSE IF new_clippings = <<>>
        THEN [w |-> w, new_count |-> 0, new_clippings |-> <<>>]
        ELSE [w |-> IF DryRun(dry_run) THEN w
                    ELSE Log([w EXCEPT !.dirs.out = TRUE,
                                       !.vault = WriteFile(@, filename, lines)],
                             Line("  {title}: {n} new", book_data.title, <<Len(new_clippings)>>)),
              new_count |-> Len(new_clippings),
              new_clippings |-> new_clippings]

\* A variant that falls back to another extra tag
ShortNotesFrontmatterOtherTag(config) ==
    <<Rule>>
    \o (IF Get(config.include_tags, TRUE)
        THEN <<Line("tags:", <<>>, <<>>),
               TagLine(Get(config.default_tag, <<"books">>)),
               TagLine(Get(config.short_notes_tag, <<"short">>))>>
        ELSE <<>>)
    \o <<Rule, Blank>>

\* Lines 162-172: the frontmatter of a new aggregate file
ShortNotesFrontmatter(config) ==
    <<Rule>>
    \o (IF Get(config.include_tags, TRUE)
        THEN <<Line("tags:", <<>>, <<>>),
               TagLine(Get(config.default_tag, <<"books">>)),
               TagLine(Get(config.short_notes_tag, <<"short-notes">>))>>
        ELSE <<>>)
    \o <<Rule, Blank>>

\* Lines 174-221: the loop over the short books; acc holds lines, total_new,
\* books_with_new and all_new_items
RECURSIVE ShortBooksLoop(_, _, _)
ShortBooksLoop(acc, short_books, existing_hashes) ==
    IF short_books = <<>> THEN acc
    ELSE
    LET book_data     == Head(short_books)
        clips         == link_notes_to_highlights(book_data.clippings)
        new_clippings == NewClippings(clips, existing_hashes)
    IN  IF new_clippings = <<>>
        THEN ShortBooksLoop(acc, Tail(short_books), existing_hashes)
        ELSE ShortBooksLoop(
                [lines |-> acc.lines
                           \o <<Line("## ", book_data.title, <<>>),
                                Line("*{author}*", book_data.author, <<>>),
                                Blank>>
                           \o ClippingLines(new_clippings)
                           \o <<Rule, Blank>>,
                 total_new |-> acc.total_new + Len(new_clippings),
                 books_with_new |-> acc.books_with_new + 1,
                 all_new_items |-> Append(acc.all_new_items,
                                          [book_title |-> book_data.title,
                                           book_author |-> book_data.author,
                                           clippings |-> new_clippings])],
                Tail(short_books), existing_hashes)

\* writer.py write_short_notes_file
write_short_notes_file(w, short_books, existing_hashes, config, dry_run) ==
    LET filename    == Get(config.short_notes_filename, DefaultShortNotesFilename)
        file_exists == IsFile(w.vault, filename)
        acc         == ShortBooksLoop(
                           [lines |-> IF NewFile(file_exists)
                                      THEN ShortNotesFrontmatter(config)
                                      ELSE <<>>,
                            total_new |-> 0, books_with_new |-> 0,
                            all_new_items |-> <<>>],
                           short_books, existing_hashes)
    IN  IF w.raised
        THEN [w |-> w, total_new |-> 0, books_with_new |-> 0, all_new_items |-> <<>>]
        ELSE IF \E i \in 1..Len(short_books) : link_raises(short_books[i].clippings)
        THEN [w |-> Raise(w), total_new |-> 0, books_with_new |-> 0, all_new_items |-> <<>>]
        ELSE IF acc.lines = <<>>
        THEN [w |-> w, total_new |-> 0, books_with_new |-> 0, all_new_items |-> <<>>]
        ELSE [w |-> IF DryRun(dry_run) THEN w
                    ELSE Log([w EXCEPT !.dirs.out = TRUE,
                                       !.vault = WriteFile(@, filename, acc.lines)],
                             Line("  {filename}: {total_new} new from {n} books",
                                  filename, <<acc.total_new, acc.books_with_new>>)),
              total_new |-> acc.total_new,
              books_with_new |-> acc.books_with_new,
              all_new_items |-> acc.all_new_items]

\* Python's order of str: by code point, a proper prefix first
RECURSIVE TextLess(_, _)
TextLess(a, b) ==
    IF b = <<>> THEN FALSE
    ELSE IF a = <<>> THEN TRUE
    ELSE IF Utf8(Head(a)) # Utf8(Head(b)) THEN Utf8(Head(a)) < Utf8(Head(b))
    ELSE TextLess(Tail(a), Tail(b))

\* Stable insertion of a keyed item, ascending by its key
RECURSIVE InsertKeyed(_, _)
InsertKeyed(sorted, x) ==
    IF sorted = <<>> THEN <<x>>
    ELSE IF TextLess(x.key, Head(sorted).key) THEN <<x>> \o sorted
    ELSE <<Head(sorted)>> \o InsertKeyed(Tail(sorted), x)

RECURSIVE SortKeyed(_, _)
SortKeyed(sorted, rest) ==
    IF rest = <<>> THEN sorted
    ELSE SortKeyed(InsertKeyed(sorted, Head(rest)), Tail(rest))

\* sorted(items, key=...): stable, ascending by titles[i], the key of items[i]
SortByTitle(items, titles) ==
    LET keyed  == [i \in 1..Len(items) |-> [key |-> titles[i], val |-> items[i]]]
        sorted == SortKeyed(<<>>, keyed)
    IN  [i \in 1..Len(items) |-> sorted[i].val]

RECURSIVE SumClippings(_)
SumClippings(new_items) ==
    IF new_items = <<>> THEN 0
    ELSE Len(Head(new_items).clippings) + SumClippings(Tail(new_items))

RECURSIVE QuotedNotes(_)
QuotedNotes(notes) ==
    IF notes = <<>> THEN <<>>
    ELSE <<Line("> ", Head(notes).content, <<>>)>> \o QuotedNotes(Tail(notes))

RECURSIVE ImportLogClippings(_)
ImportLogClippings(clips) ==
    IF clips = <<>> THEN <<>>
    ELSE <<Rule, Line("text", Head(clips).content, <<>>)>>
         \o QuotedNotes(Head(clips).notes)
         \o <<Blank>>
         \o ImportLogClippings(Tail(clips))

\* Lines 304-328: the section of every book with new clippings
RECURSIVE ImportLogBooks(_)
ImportLogBooks(items) ==
    IF items = <<>> THEN <<>>
    ELSE (IF Head(items).clippings = <<>> THEN <<>>
          ELSE <<Line("## ", Head(items).book_title, <<>>),
                 Line("*{author}*", Head(items).book_author, <<>>),
                 Blank>>
               \o ImportLogClippings(Head(items).clippings)
               \o <<Rule, Blank>>)
         \o ImportLogBooks(Tail(items))

\* Lines 286-328: the content of the import log
ImportLogLines(new_items, config, now) ==
    <<Rule,
      Line("imported: ", <<>>, <<now>>),
      Line("total_new: ", <<>>, <<SumClippings(new_items)>>),
      Line("books: ", <<>>, <<Len(new_items)>>)>>
    \o (IF Get(config.include_tags, TRUE)
        THEN <<Line("tags:", <<>>, <<>>), TagLine(<<"import-log">>)>>
        ELSE <<>>)
    \o <<Rule, Blank,
         Line("# Import Log - ", <<>>, <<now>>),
         Blank,
         Line("**{total_new} new highlights** from **{n} books**", <<>>,
              <<SumClippings(new_items), Len(new_items)>>),
         Blank>>
    \o ImportLogBooks(SortByTitle(new_items, [i \in 1..Len(new_items) |-> new_items[i].book_title]))

\* writer.py write_import_log; the file is named after datetime.now() to the
\* second and opened with mode 'w'; path is <<>> for "" and <<now>> for the
\* path of the file
write_import_log(w, new_items, config, dry_run, now) ==
    IF w.raised \/ SumClippings(new_items) = 0 THEN [w |-> w, path |-> <<>>]
    ELSE [w |-> IF DryRun(dry_run) THEN w
                ELSE Log([w EXCEPT !.dirs = [out |-> TRUE, logs |-> TRUE],
                                   !.importLogs = Create(@, now, ImportLogLines(new_items, config, now))],
                         Line("Import log: {filename}", <<>>, <<now>>)),
          path |-> <<now>>]

\* Lines 401-411: the loop over the regular books; acc holds the world,
\* total_new and all_new_items
RECURSIVE RegularBooksLoop(_, _, _, _, _)
RegularBooksLoop(acc, books, existing_hashes, config, dry_run) ==
    IF books = <<>> THEN acc
    ELSE
    LET r == write_book_file(acc.w, Head(books), existing_hashes, config, dry_run)
    IN  RegularBooksLoop(
            [w |-> r.w,
             total_new |-> acc.total_new + r.new_count,
             all_new_items |->
                 IF r.new_clippings = <<>> THEN acc.all_new_items
                 ELSE Append(acc.all_new_items,
                             [book_title |-> Head(books).title,
                              book_author |-> Head(books).author,
                              clippings |-> r.new_clippings])],
            Tail(books), existing_hashes, config, dry_run)

HighlightCount(book_data) ==
    Len(SelectSeq(book_data.clippings, LAMBDA c : c.type = "highlight"))

\* A variant that gives a book its own file only above the threshold
OwnFileAbove(highlight_count, min_highlights) == highlight_count > min_highlights

\* Line 385: `highlight_count >= min_highlights`
OwnFile(highlight_count, min_highlights) == highlight_count >= min_highlights

\* A variant that sends to the aggregate file by the default threshold
AggregatedByDefault(highlight_count, min_highlights) == highlight_count < DefaultMinHighlights

\* Lines 387-388: the `else` of line 385
Aggregated(highlight_count, min_highlights) == ~OwnFile(highlight_count, min_highlights)

\* No summary: before the first run, and of a call that raised
NoSummary ==
    [total_books |-> 0, new_highlights |-> 0, regular_books |-> 0,
     short_books |-> 0, import_log |-> <<>>]

\* A variant that ignores output.create_import_log
CreatesImportLogAlways(all_new_items, config) == all_new_items # <<>>

\* Line 426: `if all_new_items and config.get('output', {}).get('create_import_log', True)`
CreatesImportLog(all_new_items, config) ==
    all_new_items # <<>> /\ Get(config.create_import_log, TRUE)

\* Lines 424-441: the import log when something is new and the key allows
\* it, the closing line and the summary
SyncImportLog(w, total_new, all_new_items, n_books, n_regular, n_short, existing_hashes, config, dry_run, now) ==
    LET logged == IF CreatesImportLog(all_new_items, config)
                  THEN LET r == write_import_log(
                                    Log(w, Line("Creating import log:", <<>>, <<>>)),
                                    all_new_items, config, dry_run, now)
                       IN  [w |-> Log(r.w, Blank), path |-> r.path]
                  ELSE [w |-> w, path |-> <<>>]
    IN  IF w.raised
        THEN [w |-> w, existing_hashes |-> existing_hashes, summary |-> NoSummary]
        ELSE
        [w |-> Log(logged.w, Line("Done! Added {n} new highlights.", <<>>, <<total_new>>)),
         existing_hashes |-> existing_hashes,
         summary |-> [total_books    |-> n_books,
                      new_highlights |-> total_new,
                      regular_books  |-> n_regular,
                      short_books    |-> n_short,
                      import_log     |-> logged.path]]

\* Lines 414-422: the books below the threshold go to the aggregate file
SyncShortBooks(reg, short_books, n_books, n_regular, existing_hashes, config, dry_run, now) ==
    LET short == IF short_books = <<>>
                 THEN reg
                 ELSE LET r == write_short_notes_file(
                                   Log(reg.w, Line("Processing short notes:", <<>>, <<>>)),
                                   short_books, existing_hashes, config, dry_run)
                      IN  [w |-> Log(r.w, Blank),
                           total_new |-> reg.total_new + r.total_new,
                           all_new_items |-> reg.all_new_items \o r.all_new_items]
    IN  SyncImportLog(short.w, short.total_new, short.all_new_items, n_books, n_regular,
                      Len(short_books), existing_hashes, config, dry_run, now)

\* Lines 397-412: the books at or above the threshold get their own files,
\* in the order of their titles
SyncRegularBooks(w, regular_books, short_books, n_books, existing_hashes, config, dry_run, now) ==
    LET reg == IF regular_books = <<>>
               THEN [w |-> w, total_new |-> 0, all_new_items |-> <<>>]
               ELSE LET r == RegularBooksLoop(
                                 [w |-> Log(w, Line("Processing book files:", <<>>, <<>>)),
                                  total_new |-> 0, all_new_items |-> <<>>],
                                 SortByTitle(regular_books,
                                     [i \in 1..Len(regular_books) |-> regular_books[i].title]),
                                 existing_hashes, config, dry_run)
                    IN  [r EXCEPT !.w = Log(@, Blank)]
    IN  SyncShortBooks(reg, short_books, n_books, Len(regular_books),
                       existing_hashes, config, dry_run, now)

\* Lines 378-395: the books are separated by their highlight count
SyncPartition(w, books, existing_hashes, min_highlights, config, dry_run, now) ==
    LET regular_books == SelectSeq(books,
                             LAMBDA b : OwnFile(HighlightCount(b), min_highlights))
        short_books   == SelectSeq(books,
                             LAMBDA b : Aggregated(HighlightCount(b), min_highlights))
    IN  SyncRegularBooks(
            Log(Log(Log(Log(w, Line("Found {n} existing highlights", <<>>,
                                    <<Cardinality(existing_hashes)>>)),
                            Line("Books with {n}+ highlights: {m}", <<>>,
                                 <<min_highlights, Len(regular_books)>>)),
                        Line("Books with <{n} highlights: {m}", <<>>,
                             <<min_highlights, Len(short_books)>>)),
                Blank),
            regular_books, short_books, Len(books), existing_hashes, config, dry_run, now)

\* writer.py sync_highlights on a readable input file: the world it leaves,
\* the index it built and the summary it returns
sync_highlights(segs, w0, config, dry_run, now) ==
    SyncPartition(
        Log(Log(Log(w0, Line("Parsing clippings file...", <<>>, <<>>)),
                Line("Found {n} books", <<>>, <<Len(parse_clippings(segs))>>)),
            Line("Scanning existing files...", <<>>, <<>>)),
        parse_clippings(segs),
        scan_existing_hashes(w0.dirs, w0.vault),
        Get(config.min_highlights_for_own_file, DefaultMinHighlights),
        config, dry_run, now)

\* The core's state in the specifications that do not run the sync
CoreIdle ==
    /\ clippings = <<>> /\ vault = <<>> /\ importLogs = <<>>
    /\ dirs = [out |-> FALSE, logs |-> FALSE]
    /\ clock = 0 /\ cfg = <<>> /\ runs = 0 /\ run = <<>> /\ prev = <<>>

\* The sync state of the specifications that apply one function alone
SyncIdle == CoreIdle /\ gui = <<>>

\* A segment as the device writes it: the title line, the metadata line, a
\* blank line and the body
Segment(title_line, type, location, added, body) ==
    << RawLine(title_line, NoInfo),
       RawLine(<<"-">>, [type |-> type, page |-> None, location |-> location,
                         added |-> added]),
       RawLine(<<>>, NoInfo),
       RawLine(body, NoInfo) >>

\* The clippings parse_clippings collects from segments of one book
ClippingsOf(segs) ==
    LET books == parse_clippings(segs)
    IN  IF books = <<>> THEN <<>> ELSE books[1].clippings

(***************************************************************************)
(* Specification of the sync: the device appends segments to My            *)
(* Clippings.txt, and sync_highlights runs, live or dry, against the       *)
(* output directory                                                        *)
(***************************************************************************)
MaxSegs == 3
MaxRuns == 2

\* "A (x)" and "A (y)": one title with two authors; "B": no author
TitleAx == <<"A", " ", "(", "x", ")">>
TitleAy == <<"A", " ", "(", "y", ")">>
TitleB == <<"B">>

BookmarkBody == <<"k">>

\* What the device may append: highlights of book A at locations 1-2 and 3, a
\* note of A at location 2, a highlight of book B whose body differs from the
\* first one of A in leading whitespace only, a bookmark of B (with a body, so
\* that only its type keeps it out), and a segment whose second line is no
\* metadata line.
Segments ==
    { Segment(TitleAx, "Highlight", <<1, 2>>, 1, <<"a">>),
      Segment(TitleAy, "Highlight", <<3>>, 2, <<"b">>),
      Segment(TitleAx, "Note", <<2>>, 3, <<"n">>),
      Segment(TitleB, "Highlight", <<1>>, 1, <<" ", "a">>),
      Segment(TitleB, "Bookmark", <<1>>, 1, BookmarkBody),
      <<RawLine(TitleB, NoInfo), RawLine(<<"?">>, NoInfo)>> }

\* Every key absent
NoConfig ==
    [min_highlights_for_own_file |-> {}, short_notes_filename |-> {},
     default_tag |-> {}, short_notes_tag |-> {}, import_log_folder |-> {},
     create_import_log |-> {}, include_author |-> {}, include_tags |-> {}]

\* The configurations of the runs, as Settings.load merges them from
\* config.yaml. The settings pane keeps the aggregate file name ending in .md
\* (formatting_frame.py lines 217-224); a config.yaml written by hand need not.
Configs ==
    { NoConfig,
      [NoConfig EXCEPT !.min_highlights_for_own_file = {1}],
      [NoConfig EXCEPT !.short_notes_filename = {<<"Short Notes">>}],
      [NoConfig EXCEPT !.min_highlights_for_own_file = {2},
                       !.short_notes_filename = {<<"Short", ".md">>},
                       !.create_import_log = {FALSE},
                       !.include_author = {FALSE},
                       !.include_tags = {FALSE}] }

\* A note the user keeps in the vault; it holds the marker of the body "a"
UserNote ==
    <<Line("text", <<"m", "y">>, <<>>), Marker(generate_hash(<<"a">>)), Blank>>

\* The output directory before the first run: absent, or with the user's note
InitialVaults ==
    { [vault |-> NoFiles, dirs |-> [out |-> FALSE, logs |-> FALSE]],
      [vault |-> Create(NoFiles, <<"Notes", ".md">>, UserNote),
       dirs |-> [out |-> TRUE, logs |-> FALSE]] }

NoRun ==
    [dry_run |-> FALSE, segments |-> 0, existing_hashes |-> {}, log |-> <<>>,
     raised |-> FALSE, summary |-> NoSummary, changed |-> FALSE]

Init ==
    /\ clippings = <<>>
    /\ \E v \in InitialVaults : vault = v.vault /\ dirs = v.dirs
    /\ importLogs = NoFiles
    /\ clock = 1
    /\ cfg \in Configs
    /\ runs = 0
    /\ run = NoRun
    /\ prev = NoRun
    /\ fin = <<>>
    /\ fout = <<>>
    /\ gui = <<>>

\* The device appends a segment to My Clippings.txt
AppendSegment ==
    /\ runs < MaxRuns
    /\ Len(clippings) < MaxSegs
    /\ \E seg \in Segments : clippings' = Append(clippings, seg)
    /\ UNCHANGED <<vault, importLogs, dirs, clock, cfg, runs, run, prev, fin, fout, gui>>

\* datetime.now() of a run: the first run at the clock's second, a later one
\* in the same second as the run before it or in the next
Now == IF runs = 0 THEN {clock} ELSE {clock, clock + 1}

\* One call of sync_highlights
Sync(dry_run) ==
    /\ runs < MaxRuns
    /\ \E now \in Now :
       \E r \in {sync_highlights(clippings, World(vault, importLogs, dirs, <<>>),
                                 cfg, dry_run, now)} :
          /\ clock' = now
          /\ vault' = r.w.vault
          /\ importLogs' = r.w.importLogs
          /\ dirs' = r.w.dirs
          /\ run' = [dry_run |-> dry_run,
                     segments |-> Len(clippings),
                     existing_hashes |-> r.existing_hashes,
                     log |-> r.w.log,
                     raised |-> r.w.raised,
                     summary |-> r.summary,
                     changed |-> \/ r.w.vault # vault
                                 \/ r.w.importLogs # importLogs
                                 \/ r.w.dirs # dirs]
    /\ runs' = runs + 1
    /\ prev' = run
    /\ UNCHANGED <<clippings, cfg, fin, fout, gui>>

LiveSync == Sync(FALSE)

DrySync == Sync(TRUE)

Next == AppendSegment \/ LiveSync \/ DrySync

Spec == Init /\ [][Next]_vars

\* The input of the last run: My Clippings.txt as it was then
RunInput == SubSeq(clippings, 1, run.segments)

\* The last two runs were made on the same input (the configuration is the
\* same throughout, and only a run changes the output directory)
SameInputTwice == runs >= 2 /\ run.segments = prev.segments

IsPrefix(a, b) == Len(a) <= Len(b) /\ SubSeq(b, 1, Len(a)) = a

\* The lines a step adds to a file of the output directory
AddedLines(before, after, name) ==
    IF name \in DOMAIN before
    THEN SubSeq(after[name], Len(before[name]) + 1, Len(after[name]))
    ELSE after[name]

\* C1: a live sync repeated with the same input, output directory and
\* configuration reports new_highlights = 0 and changes no file and no
\* directory.
Idempotence ==
    (SameInputTwice /\ ~prev.dry_run /\ ~run.dry_run) =>
        /\ run.summary.new_highlights = 0
        /\ ~run.changed

\* C2: a run writes no identity marker carrying an identity of the index
\* scan_existing_hashes built at its start, neither for a top-level clipping
\* nor for a nested note.
NeverReEmit ==
    [][\A name \in DOMAIN vault' :
          LET added == AddedLines(vault, vault', name)
          IN  \A i \in 1..Len(added) :
                  added[i].k = Marker(<<>>).k =>
                      /\ added[i].t \notin scan_existing_hashes(dirs, vault)
                      /\ added[i].t \notin run'.existing_hashes]_vars

\* A live run whose input holds a clipping of a known identity beside new
\* ones has written the new ones
NeverReEmitWitness ==
    /\ runs >= 1 /\ ~run.dry_run
    /\ run.summary.new_highlights > 0
    /\ LET books == parse_clippings(RunInput)
       IN  \E b \in 1..Len(books) : \E c \in 1..Len(books[b].clippings) :
               books[b].clippings[c].hash \in run.existing_hashes

\* C3 as claimed: every file that exists before a step still exists after it
\* with its former content as a prefix, in the output directory and in its
\* import-log folder.
AppendOnly ==
    [][/\ \A name \in DOMAIN vault :
              name \in DOMAIN vault' /\ IsPrefix(vault[name], vault'[name])
       /\ \A name \in DOMAIN importLogs :
              name \in DOMAIN importLogs' /\ IsPrefix(importLogs[name], importLogs'[name])]_vars

\* C4: a run with dry_run set creates no directory, creates no file and
\* appends to none.
DryRunPurity ==
    [][(runs' = runs + 1 /\ run'.dry_run) =>
          /\ vault' = vault
          /\ importLogs' = importLogs
          /\ dirs' = dirs]_vars

\* A dry run found new highlights and the import log to write
DryRunPurityWitness ==
    /\ runs >= 1 /\ run.dry_run
    /\ run.summary.new_highlights > 0
    /\ run.summary.import_log # <<>>
    /\ ~dirs.out

\* C5 as claimed: a dry run and a live run on the same input, output
\* directory and configuration pass the same lines to the logging callback.
DryRunLogsAsLive ==
    (SameInputTwice /\ prev.dry_run /\ ~run.dry_run) => run.log = prev.log

\* The threshold the claim names: the configured one, 3 when the key is absent
ClaimedThreshold ==
    IF cfg.min_highlights_for_own_file = {} THEN 3
    ELSE CHOOSE n \in cfg.min_highlights_for_own_file : TRUE

\* The number of parsed clippings of type highlight of a book
ClaimedHighlights(book) ==
    Cardinality({c \in 1..Len(book.clippings) : book.clippings[c].type = "highlight"})

HasLine(files, name, line) ==
    name \in DOMAIN files /\ \E i \in 1..Len(files[name]) : files[name][i] = line

\* C6: a book gets its own file exactly when its parsed highlights
\* (already exported ones counted, notes not) number at least
\* output.min_highlights_for_own_file, 3 when the key is absent; else it goes
\* to the aggregate file.
RoutingThreshold ==
    runs >= 1 =>
        LET books == parse_clippings(RunInput)
            own   == {b \in 1..Len(books) : ClaimedHighlights(books[b]) >= ClaimedThreshold}
            aggregate == IF cfg.short_notes_filename = {} THEN <<"Short Notes", ".md">>
                         ELSE CHOOSE n \in cfg.short_notes_filename : TRUE
        IN  /\ run.summary.regular_books = Cardinality(own)
            /\ run.summary.short_books = Len(books) - Cardinality(own)
            /\ ~run.dry_run =>
                  \A b \in 1..Len(books) : \A c \in 1..Len(books[b].clippings) :
                      (/\ books[b].clippings[c].type = "highlight"
                       /\ books[b].clippings[c].hash \notin run.existing_hashes) =>
                          IF b \in own
                          THEN HasLine(vault, sanitize_filename(books[b].title) \o <<".md">>,
                                       Marker(books[b].clippings[c].hash))
                          ELSE /\ HasLine(vault, aggregate, Line("## ", books[b].title, <<>>))
                               /\ HasLine(vault, aggregate, Marker(books[b].clippings[c].hash))

\* With the default threshold a book of three highlights has been written to
\* its own file
RoutingThresholdWitness ==
    /\ runs >= 1 /\ ~run.dry_run
    /\ cfg.min_highlights_for_own_file = {}
    /\ run.summary.regular_books = 1
    /\ run.summary.new_highlights > 0
    /\ <<"A", ".md">> \in DOMAIN vault

\* The metadata line of the segment says "Your Bookmark"
SaysBookmark(seg) == \E i \in 1..Len(seg) : seg[i].info.type = "Bookmark"

RECURSIVE CountClippings(_)
CountClippings(books) ==
    IF books = <<>> THEN 0 ELSE Len(Head(books).clippings) + CountClippings(Tail(books))

\* C7: a bookmark segment yields no clipping: the parse result, total_books
\* and the counts are those of the input without its bookmarks, a book of
\* bookmarks only is no book, and no file holds a bookmark's body.
BookmarkExclusion ==
    runs >= 1 =>
        LET others == SelectSeq(RunInput, LAMBDA seg : ~SaysBookmark(seg))
        IN  /\ parse_clippings(RunInput) = parse_clippings(others)
            /\ run.summary.total_books = Len(parse_clippings(others))
            /\ run.summary.new_highlights <= CountClippings(parse_clippings(others))
            /\ \A name \in DOMAIN vault : \A i \in 1..Len(vault[name]) :
                   vault[name][i].t # BookmarkBody
            /\ \A name \in DOMAIN importLogs : \A i \in 1..Len(importLogs[name]) :
                   importLogs[name][i].t # BookmarkBody

\* A live run on a bookmark of book B and a highlight of book A has written
\* one book
BookmarkExclusionWitness ==
    /\ runs >= 1 /\ ~run.dry_run
    /\ \E i \in 1..Len(RunInput) : SaysBookmark(RunInput[i])
    /\ \A i \in 1..Len(RunInput) :
          SaysBookmark(RunInput[i]) \/ RunInput[i][1].text = TitleAx
    /\ run.summary.total_books = 1
    /\ run.summary.new_highlights = 1

MaxBodyLen == 3

HashChars == {" ", "a", "b"}

HashInit ==
    /\ fin \in SeqsUpTo(HashChars, MaxBodyLen) \X SeqsUpTo(HashChars, MaxBodyLen)
    /\ fout = <<>>
    /\ SyncIdle

HashBodies ==
    /\ fout = <<>>
    /\ fout' = <<generate_hash(fin[1]), generate_hash(fin[2])>>
    /\ UNCHANGED <<fin, syncVars>>

HashNext == HashBodies

SpecHash == HashInit /\ [][HashNext]_vars

\* C10: two bodies that are equal after stripping surrounding whitespace get
\* the same identity, and every identity is exactly 8 characters of the
\* lowercase hexadecimal alphabet.
IdentityDeterminism ==
    fout # <<>> =>
        /\ (strip(fin[1]) = strip(fin[2]) => fout[1] = fout[2])
        /\ \A k \in 1..2 :
              /\ Len(fout[k]) = 8
              /\ \A i \in 1..Len(fout[k]) : fout[k][i] \in HexAlphabet

\* Two bodies that differ only in surrounding whitespace have been hashed
IdentityDeterminismWitness ==
    /\ fout # <<>>
    /\ fin[1] # fin[2]
    /\ strip(fin[1]) = strip(fin[2])
    /\ strip(fin[1]) # <<>>

(***************************************************************************)
(* Specification of deduplicate_partial_notes alone: the notes of one book *)
(***************************************************************************)
MaxNotes == 3

DedupBodies == {<<"a">>, <<"a", "b">>, <<"a", "b", "!">>, <<"b">>}

DedupLocations == {<<>>, <<1>>, <<1, 2>>}

DedupSegments ==
    {Segment(<<"A">>, "Note", l, 1, b) : l \in DedupLocations, b \in DedupBodies}

DedupInit ==
    /\ fin \in {ClippingsOf(segs) : segs \in SeqsUpTo(DedupSegments, MaxNotes)}
    /\ fout = <<>>
    /\ SyncIdle

DedupNotes ==
    /\ fout = <<>>
    /\ fout' = <<deduplicate_partial_notes(fin)>>
    /\ UNCHANGED <<fin, syncVars>>

DedupNext == DedupNotes

SpecDedup == DedupInit /\ [][DedupNext]_vars

ProperPrefix(p, s) == Len(p) < Len(s) /\ SubSeq(s, 1, Len(p)) = p

\* C8: notes are grouped by (loc_start, loc_end); within a group a body
\* survives exactly when it is not a proper prefix of another body of the
\* group, and it is then kept once; notes of different groups never
\* eliminate each other.
PartialNoteDedup ==
    fout # <<>> =>
        /\ \A i \in 1..Len(fout[1]) : \E j \in 1..Len(fin) : fin[j] = fout[1][i]
        /\ \A j \in 1..Len(fin) :
              LET same(n) == /\ n.loc_start = fin[j].loc_start
                             /\ n.loc_end = fin[j].loc_end
                  eliminated ==
                      \E k \in 1..Len(fin) :
                          same(fin[k]) /\ ProperPrefix(fin[j].content, fin[k].content)
                  survivors ==
                      {i \in 1..Len(fout[1]) :
                          same(fout[1][i]) /\ fout[1][i].content = fin[j].content}
              IN  Cardinality(survivors) = IF eliminated THEN 0 ELSE 1

\* Three snapshots of one note at one location ("a", "ab", "ab!") have been
\* reduced to the longest one
PartialNoteDedupWitness ==
    /\ fout # <<>>
    /\ Len(fin) = 3
    /\ \A j \in 1..3 : fin[j].loc_start = 1 /\ fin[j].loc_end = 1
    /\ {fin[j].content : j \in 1..3} = {<<"a">>, <<"a", "b">>, <<"a", "b", "!">>}
    /\ Len(fout[1]) = 1
    /\ fout[1][1].content = <<"a", "b", "!">>

(***************************************************************************)
(* Specification of link_notes_to_highlights alone: the clippings of one   *)
(* book                                                                    *)
(***************************************************************************)
MaxClips == 3

LinkSegments ==
    {Segment(<<"A">>, "Highlight", l, 1, <<"a">>) : l \in {<<>>, <<1>>, <<1, 2>>}}
    \cup {Segment(<<"A">>, "Note", l, 1, <<"n">>) : l \in {<<>>, <<1>>, <<2>>, <<3>>}}
    \cup {Segment(<<"A">>, "Note", <<2>>, 1, <<"n", "n">>)}

LinkInit ==
    /\ fin \in {ClippingsOf(segs) : segs \in SeqsUpTo(LinkSegments, MaxClips)}
    /\ fout = <<>>
    /\ SyncIdle

LinkClippings ==
    /\ fout = <<>>
    /\ fout' = <<link_notes_to_highlights(fin)>>
    /\ UNCHANGED <<fin, syncVars>>

LinkNext == LinkClippings

SpecLink == LinkInit /\ [][LinkNext]_vars

\* The notes of a book after deduplication
DedupedNotesOf(clips) ==
    deduplicate_partial_notes(SelectSeq(clips, LAMBDA c : c.type = "note"))

\* The notes with a location within [h.loc_start, h.loc_end or h.loc_start]
ClaimedNotes(h, notes) ==
    SelectSeq(notes, LAMBDA n :
        /\ h.loc_start # None
        /\ n.loc_start # None
        /\ h.loc_start <= n.loc_start
        /\ n.loc_start <= (IF h.loc_end = None \/ h.loc_end = 0
                           THEN h.loc_start ELSE h.loc_end))

\* C9: after linking, a highlight with a present loc_start holds exactly the
\* deduplicated notes n with h.loc_start <= n.loc_start <= (h.loc_end or
\* h.loc_start), both ends inclusive, and a highlight without loc_start holds
\* none.
LinkingBoundary ==
    fout # <<>> =>
        /\ Len(SelectSeq(fout[1], LAMBDA c : c.type = "highlight"))
              = Len(SelectSeq(fin, LAMBDA c : c.type = "highlight"))
        /\ \A i \in 1..Len(fout[1]) :
              fout[1][i].type = "highlight" =>
                  /\ fout[1][i].notes = ClaimedNotes(fout[1][i], DedupedNotesOf(fin))
                  /\ fout[1][i].loc_start = None => fout[1][i].notes = <<>>

\* A highlight spanning 1-2 has claimed a note at 2 and not a note at 3
LinkingBoundaryWitness ==
    /\ fout # <<>>
    /\ \E j, k \in 1..Len(fin) :
          /\ fin[j].type = "note" /\ fin[j].loc_start = 2
          /\ fin[k].type = "note" /\ fin[k].loc_start = 3
    /\ \E i \in 1..Len(fout[1]) :
          /\ fout[1][i].type = "highlight"
          /\ fout[1][i].loc_start = 1 /\ fout[1][i].loc_end = 2
          /\ Len(fout[1][i].notes) = 1
          /\ fout[1][i].notes[1].loc_start = 2

(***************************************************************************)
(* Unlinked notes                                                          *)
(***************************************************************************)

\* The note is held by a highlight of the linked sequence
Attached(note, linked) ==
    \E i \in 1..Len(linked) :
        /\ linked[i].type = "highlight"
        /\ \E j \in 1..Len(linked[i].notes) : linked[i].notes[j] = note

\* The note is an item of the linked sequence itself
TopLevel(note, linked) == \E i \in 1..Len(linked) : linked[i] = note

\* C15 as claimed: every deduplicated note that link_notes_to_highlights
\* attached to no highlight is a top-level item of the returned sequence, and
\* every note attached to a highlight is not
UnlinkedStandalone ==
    fout # <<>> =>
        LET notes == DedupedNotesOf(fin)
        IN  \A k \in 1..Len(notes) :
                TopLevel(notes[k], fout[1]) <=> ~Attached(notes[k], fout[1])

(***************************************************************************)
(* Specification of one call of sync_highlights on an input whose dates    *)
(* are written with and without a zone, against an absent output directory *)
(***************************************************************************)
MaxDated == 3

\* Highlights of one book at location 5 dated without a zone, with a zone and
\* with a text parse_date rejects, a highlight at location 6 dated with a
\* zone, and a note without location dated with a zone
DatedSegments ==
    { Segment(<<"A">>, "Highlight", <<5>>, 1, <<"a">>),
      Segment(<<"A">>, "Highlight", <<5>>, AwareFrom + 1, <<"b">>),
      Segment(<<"A">>, "Highlight", <<5>>, 0, <<"c">>),
      Segment(<<"A">>, "Highlight", <<6>>, AwareFrom + 2, <<"d">>),
      Segment(<<"B">>, "Note", <<>>, AwareFrom + 3, <<"n">>) }

DatedInit ==
    /\ fin \in [segs : SeqsUpTo(DatedSegments, MaxDated),
                config : {NoConfig, [NoConfig EXCEPT !.min_highlights_for_own_file = {1}]},
                dry_run : BOOLEAN]
    /\ fout = <<>>
    /\ SyncIdle

DatedSync ==
    /\ fout = <<>>
    /\ fout' = <<sync_highlights(fin.segs,
                                 World(NoFiles, NoFiles, [out |-> FALSE, logs |-> FALSE], <<>>),
                                 fin.config, fin.dry_run, 1)>>
    /\ UNCHANGED <<fin, syncVars>>

DatedNext == DatedSync

SpecDated == DatedInit /\ [][DatedNext]_vars

\* C11 as claimed: on every readable input sync_highlights returns a summary
\* record and raises nothing, whatever the segments contain.
ReturnsSummary ==
    fout # <<>> =>
        /\ ~fout[1].w.raised
        /\ fout[1].summary.total_books = Len(parse_clippings(fin.segs))

(***************************************************************************)
(* The import_log field of the summary                                     *)
(***************************************************************************)

\* C12 as claimed: the import_log field of the summary of a run is the path
\* of an import-log file written in that run, and it is the empty string
\* when the run wrote no import-log file; so a non-empty field names a file
\* of the import-log folder, and a run that changed nothing has the field
\* empty
ImportLogField ==
    /\ run.summary.import_log # <<>> =>
           run.summary.import_log[1] \in DOMAIN importLogs
    /\ ~run.changed => run.summary.import_log = <<>>

(***************************************************************************)
(* Books with nothing new                                                  *)
(***************************************************************************)

\* C13 as claimed: a live run in which no book has a surviving top-level
\* item (new_highlights = 0) creates no file and modifies no file of the
\* output directory, whichever route its books take
NothingNewNothingWritten ==
    [][(runs' = runs + 1 /\ ~run'.dry_run /\ ~run'.raised
            /\ run'.summary.new_highlights = 0)
         => vault' = vault]_vars

(***************************************************************************)
(* Specification of write_short_notes_file alone: the books parsed from a  *)
(* few segments are written to the aggregate file, new or existing, with   *)
(* some identities already exported                                        *)
(***************************************************************************)
MaxShort == 3

\* A highlight of book A and a note inside it, a second highlight of A, a
\* highlight of book B and a note of B that no highlight holds
ShortSegments ==
    { Segment(TitleAx, "Highlight", <<100>>, 1, <<"a">>),
      Segment(TitleAx, "Note", <<100>>, 2, <<"n">>),
      Segment(TitleAx, "Highlight", <<7, 9>>, 3, <<"b">>),
      Segment(TitleB, "Highlight", <<1>>, 1, <<"c">>),
      Segment(TitleB, "Note", <<5>>, 2, <<"m">>) }

ShortInit ==
    /\ fin \in [segs : SeqsUpTo(ShortSegments, MaxShort),
                existing_hashes : SUBSET {generate_hash(<<"a">>), generate_hash(<<"n">>)},
                file_exists : BOOLEAN]
    /\ fout = <<>>
    /\ SyncIdle

\* The output directory of the call: empty, or with an aggregate file
ShortWorld(file_exists) ==
    IF file_exists
    THEN World(Create(NoFiles, DefaultShortNotesFilename, <<Line("text", <<"o">>, <<>>)>>),
               NoFiles, [out |-> TRUE, logs |-> FALSE], <<>>)
    ELSE World(NoFiles, NoFiles, [out |-> FALSE, logs |-> FALSE], <<>>)

ShortWrite ==
    /\ fout = <<>>
    /\ fout' = <<write_short_notes_file(ShortWorld(fin.file_exists),
                                        parse_clippings(fin.segs),
                                        fin.existing_hashes, NoConfig, FALSE)>>
    /\ UNCHANGED <<fin, syncVars>>

ShortNext == ShortWrite

SpecShort == ShortInit /\ [][ShortNext]_vars

NonBlank(lines) == SelectSeq(lines, LAMBDA l : l # Blank)

\* The lines the claim gives a surviving clipping: separator, marker, body,
\* then marker and quoted body of every surviving nested note
ClaimedClipping(clipping) ==
    LET ClaimedNote(i) == <<Marker(clipping.notes[i].hash),
                            Line("> ", clipping.notes[i].content, <<>>)>>
        RECURSIVE Upto(_)
        Upto(i) == IF i = 0 THEN <<>> ELSE Upto(i - 1) \o ClaimedNote(i)
    IN  <<Rule, Marker(clipping.hash), Line("text", clipping.content, <<>>)>>
        \o Upto(Len(clipping.notes))

\* The lines the claim gives the books of the aggregate file, in their order
RECURSIVE ClaimedAggregate(_, _)
ClaimedAggregate(books, existing_hashes) ==
    IF books = <<>> THEN <<>>
    ELSE
    LET book      == Head(books)
        surviving == NewClippings(link_notes_to_highlights(book.clippings), existing_hashes)
        RECURSIVE Blocks(_)
        Blocks(i) == IF i = 0 THEN <<>>
                     ELSE Blocks(i - 1) \o ClaimedClipping(surviving[i])
    IN  (IF surviving = <<>> THEN <<>>
         ELSE <<Line("## ", book.title, <<>>), Line("*{author}*", book.author, <<>>)>>
              \o Blocks(Len(surviving))
              \o <<Rule>>)
        \o ClaimedAggregate(Tail(books), existing_hashes)

\* The lines the call added to the aggregate file
ShortAdded ==
    AddedLines(ShortWorld(fin.file_exists).vault, fout[1].w.vault, DefaultShortNotesFilename)

\* C14: for every book of the aggregate route with a surviving top-level
\* item, write_short_notes_file writes the heading `## title`, the line
\* `*author*`, then for each surviving clipping a separator, its marker, its
\* body and, for each surviving nested note, the note's marker and the note's
\* body after `> `, and a closing separator after the book's block; blank
\* lines apart, nothing else follows the frontmatter of a new file
AggregateRendering ==
    (fout # <<>> /\ fout[1].total_new > 0) =>
        NonBlank(ShortAdded)
            = NonBlank(IF fin.file_exists THEN <<>> ELSE ShortNotesFrontmatter(NoConfig))
              \o ClaimedAggregate(parse_clippings(fin.segs), fin.existing_hashes)

\* One highlight at location 100 and the note "n" at location 100 have been
\* written as one block with the quoted line of the note
AggregateRenderingWitness ==
    /\ fout # <<>>
    /\ fin.segs = <<Segment(TitleAx, "Highlight", <<100>>, 1, <<"a">>),
                    Segment(TitleAx, "Note", <<100>>, 2, <<"n">>)>>
    /\ fin.existing_hashes = {}
    /\ fout[1].total_new = 1
    /\ \E i \in 1..Len(ShortAdded) : ShortAdded[i] = Line("> ", <<"n">>, <<>>)

(***************************************************************************)
(* Markers written and markers scanned                                     *)
(***************************************************************************)

\* C16 as claimed: every identity marker a live run writes into a file of the
\* output directory, for a top-level clipping or a nested note, is in the
\* index scan_existing_hashes builds from the output directory the run leaves
MarkerRoundTrip ==
    [][(runs' = runs + 1 /\ ~run'.dry_run) =>
          \A name \in DOMAIN vault' :
              LET added == AddedLines(vault, vault', name)
              IN  \A i \in 1..Len(added) :
                      added[i].k = Marker(<<>>).k =>
                          added[i].t \in scan_existing_hashes(dirs', vault')]_vars

(***************************************************************************)
(* Specification of parse_clippings alone: a My Clippings.txt of well      *)
(* formed and malformed segments                                           *)
(***************************************************************************)
MaxParse == 3

HighlightInfo == [type |-> "Highlight", page |-> None, location |-> <<1>>, added |-> 1]

\* A highlight and a note of book A under two authors, a highlight of book B
\* and a bookmark of A; then a segment of blank lines, one with a title line only, one
\* whose second line is no metadata line, one without body, and one whose
\* body holds the device's clipping-limit message
ParseSegments ==
    { Segment(TitleAx, "Highlight", <<1>>, 1, <<"a">>),
      Segment(TitleAy, "Note", <<1>>, 2, <<"n">>),
      Segment(TitleB, "Highlight", <<2>>, 3, <<"b">>),
      Segment(TitleAy, "Bookmark", <<1>>, 1, BookmarkBody),
      <<RawLine(<<" ">>, NoInfo), RawLine(<<>>, NoInfo)>>,
      <<RawLine(TitleAy, NoInfo), RawLine(<<>>, NoInfo)>>,
      <<RawLine(TitleAy, NoInfo), RawLine(<<"?">>, NoInfo), RawLine(<<"c">>, NoInfo)>>,
      <<RawLine(TitleAy, NoInfo), RawLine(<<"-">>, HighlightInfo), RawLine(<<" ">>, NoInfo)>>,
      <<RawLine(TitleAy, NoInfo), RawLine(<<"-">>, HighlightInfo), RawLine(<<>>, NoInfo),
        RawLine(<<"d", ClippingLimit>>, NoInfo)>> }

ParseInit ==
    /\ fin \in SeqsUpTo(ParseSegments, MaxParse)
    /\ fout = <<>>
    /\ SyncIdle

ParseFile ==
    /\ fout = <<>>
    /\ fout' = <<parse_clippings(fin)>>
    /\ UNCHANGED <<fin, syncVars>>

ParseNext == ParseFile

SpecParse == ParseInit /\ [][ParseNext]_vars

\* The non-blank lines of a segment, by index
NonBlankLines(seg) == {i \in 1..Len(seg) : ~IsBlank(seg[i])}

Min(S) == CHOOSE x \in S : \A y \in S : x <= y

\* The segments the claim has dropped: no title line (no non-blank line), no
\* metadata line (no second non-blank line), a metadata line that does not
\* match, an empty body, a body with the clipping-limit message
ClaimedDropped(seg) ==
    LET nb == NonBlankLines(seg)
    IN  \/ nb = {}
        \/ Cardinality(nb) = 1
        \/ LET info_idx == Min(nb \ {Min(nb)})
           IN  \/ seg[info_idx].info = NoInfo
               \/ \A i \in nb : i <= info_idx
               \/ \E i \in nb : /\ i > info_idx
                                /\ \E k \in 1..Len(seg[i].text) : seg[i].text[k] = ClippingLimit

\* C17: parse_clippings drops a segment without title line, without metadata
\* line, with a metadata line that does not match, with an empty body or with
\* the clipping-limit message in its body; the result is that of parsing the
\* input without those segments, and every other segment that is no bookmark
\* is parsed into a clipping of its book
SkipDontAbort ==
    fout # <<>> =>
        LET others == SelectSeq(fin, LAMBDA seg : ~ClaimedDropped(seg))
        IN  /\ fout[1] = parse_clippings(others)
            /\ CountClippings(fout[1])
                  = Len(SelectSeq(others, LAMBDA seg : ~SaysBookmark(seg)))

\* A well-formed segment before and one after a malformed segment have both
\* been parsed
SkipDontAbortWitness ==
    /\ fout # <<>>
    /\ Len(fin) = 3
    /\ ~ClaimedDropped(fin[1]) /\ ClaimedDropped(fin[2]) /\ ~ClaimedDropped(fin[3])
    /\ CountClippings(fout[1]) = 2

(***************************************************************************)
(* Specification of scan_existing_hashes alone: an output directory that   *)
(* is absent, or holds some of a few entries                               *)
(***************************************************************************)
MaxEntries == 4

ScanEntry(name, lines) == [name |-> name, lines |-> lines]

\* Two readable Markdown files, one that cannot be read, a text file, a
\* Markdown file inside a subdirectory, one inside a subdirectory whose own
\* name ends in .md, and a Markdown file without marker
ScanEntries ==
    { ScanEntry(<<"A", ".md">>, <<Marker(generate_hash(<<"a">>)), Line("text", <<"a">>, <<>>)>>),
      ScanEntry(<<"B", ".md">>, <<Rule, Marker(generate_hash(<<"a">>)), Marker(generate_hash(<<"b">>))>>),
      ScanEntry(<<"C", ".md">>, <<Marker(generate_hash(<<"c">>)), Undecodable>>),
      ScanEntry(<<"D", ".txt">>, <<Marker(generate_hash(<<"d">>))>>),
      ScanEntry(<<"sub", "/", "E", ".md">>, <<Marker(generate_hash(<<"e">>))>>),
      ScanEntry(<<"F", ".md", "/", "G", ".md">>, <<Marker(generate_hash(<<"g">>))>>),
      ScanEntry(<<"H", ".md">>, <<Line("text", <<"h">>, <<>>)>>) }

FilesOf(entries) ==
    [name \in {e.name : e \in entries} |->
        (CHOOSE e \in entries : e.name = name).lines]

ScanInit ==
    /\ fin \in {[d |-> [out |-> FALSE, logs |-> FALSE], files |-> NoFiles]}
               \cup {[d |-> [out |-> TRUE, logs |-> FALSE], files |-> FilesOf(entries)] :
                        entries \in {E \in SUBSET ScanEntries : Cardinality(E) <= MaxEntries}}
    /\ fout = <<>>
    /\ SyncIdle

ScanDirectory ==
    /\ fout = <<>>
    /\ fout' = <<scan_existing_hashes(fin.d, fin.files)>>
    /\ UNCHANGED <<fin, syncVars>>

ScanNext == ScanDirectory

SpecScan == ScanInit /\ [][ScanNext]_vars

\* The identities of the markers in the readable files directly inside the
\* directory whose names end in .md
ClaimedIndex(files) ==
    LET claimed == {name \in DOMAIN files :
                       /\ \A i \in 1..Len(name) : name[i] # "/"
                       /\ name[Len(name)] = ".md"
                       /\ \A i \in 1..Len(files[name]) : files[name][i] # Undecodable}
    IN  UNION {{files[name][i].t : i \in {j \in 1..Len(files[name]) :
                                              files[name][j].k = Marker(<<>>).k}} :
                  name \in claimed}

KeptSegments(segs) ==
    SelectSeq(segs, LAMBDA seg : ~ClaimedDropped(seg) /\ ~SaysBookmark(seg))

\* The kept segments under one title, in the order of the input
KeptUnder(segs, title) ==
    SelectSeq(KeptSegments(segs), LAMBDA seg : TitleAuthor(seg[1].text).title = title)

\* C19: the books are keyed by the exact title: the kept segments of one
\* title are the clippings of one book, in parse order, whatever their
\* authors, and the author of the book is that of the last kept segment of
\* the title; a skipped segment (bookmark, malformed, empty body) changes
\* nothing
LastAuthorWins ==
    fout # <<>> =>
        LET books == fout[1]
            kept  == KeptSegments(fin)
        IN  /\ {books[b].title : b \in 1..Len(books)}
                  = {TitleAuthor(kept[k][1].text).title : k \in 1..Len(kept)}
            /\ \A a, b \in 1..Len(books) : books[a].title = books[b].title => a = b
            /\ \A b \in 1..Len(books) :
                  LET under == KeptUnder(fin, books[b].title)
                  IN  /\ Len(books[b].clippings) = Len(under)
                      /\ \A j \in 1..Len(under) :
                            /\ books[b].clippings[j].content = under[j][4].text
                            /\ books[b].clippings[j].type = Lower(under[j][2].info.type)
                      /\ books[b].author = TitleAuthor(under[Len(under)][1].text).author

\* The note of "A (y)", the highlight of "A (x)" and a skipped segment titled
\* "A (y)" have been parsed into one book A of two clippings by x
LastAuthorWinsWitness ==
    /\ fout # <<>>
    /\ Len(fin) = 3
    /\ fin[1] = Segment(TitleAy, "Note", <<1>>, 2, <<"n">>)
    /\ fin[2] = Segment(TitleAx, "Highlight", <<1>>, 1, <<"a">>)
    /\ fin[3] = Segment(TitleAy, "Bookmark", <<1>>, 1, BookmarkBody)
    /\ Len(fout[1]) = 1
    /\ fout[1][1].title = <<"A">>
    /\ fout[1][1].author = <<"x">>
    /\ Len(fout[1][1].clippings) = 2

(***************************************************************************)
(* The import log of a live run                                            *)
(***************************************************************************)

\* C20: a live run writes an import-log file exactly when
\* output.create_import_log is true or absent and the run has newly written
\* at least one clipping; otherwise it creates no import-log file and no
\* import-log folder
ImportLogGating ==
    [][(runs' = runs + 1 /\ ~run'.dry_run) =>
          IF Get(cfg.create_import_log, TRUE) /\ run'.summary.new_highlights > 0
          THEN /\ dirs'.logs
               /\ clock' \in DOMAIN importLogs'
               /\ \E i \in 1..Len(importLogs'[clock']) :
                      importLogs'[clock'][i]
                          = Line("total_new: ", <<>>, <<run'.summary.new_highlights>>)
          ELSE /\ importLogs' = importLogs
               /\ dirs'.logs = dirs.logs]_vars

\* A live run under a configuration that allows the log has written new
\* clippings and its import log
ImportLogGatingWitness ==
    /\ runs >= 1 /\ ~run.dry_run
    /\ Get(cfg.create_import_log, TRUE)
    /\ run.summary.new_highlights > 0
    /\ clock \in DOMAIN importLogs
    /\ dirs.logs

(***************************************************************************)
(* Specification of link_notes_to_highlights on clippings of one book      *)
(* whose locations and dates differ                                        *)
(***************************************************************************)
MaxOrder == 3

\* Highlights at location 1 of two dates, a highlight at location 3 with a
\* date parse_date rejects and one without location; a note inside the
\* highlights at 1, a note at 4 with a date parse_date rejects, a note
\* without location with the key of the highlight without location, and a
\* note at location 2
OrderSegments ==
    { Segment(<<"A">>, "Highlight", <<1>>, 2, <<"a">>),
      Segment(<<"A">>, "Highlight", <<1>>, 1, <<"b">>),
      Segment(<<"A">>, "Highlight", <<3, 3>>, 0, <<"c">>),
      Segment(<<"A">>, "Highlight", <<>>, 3, <<"d">>),
      Segment(<<"A">>, "Note", <<1>>, 1, <<"n">>),
      Segment(<<"A">>, "Note", <<4>>, 0, <<"m">>),
      Segment(<<"A">>, "Note", <<>>, 3, <<"o">>),
      Segment(<<"A">>, "Note", <<2>>, 1, <<"p">>) }

OrderInit ==
    /\ fin \in {ClippingsOf(segs) : segs \in SeqsUpTo(OrderSegments, MaxOrder)}
    /\ fout = <<>>
    /\ SyncIdle

OrderClippings ==
    /\ fout = <<>>
    /\ fout' = <<link_notes_to_highlights(fin)>>
    /\ UNCHANGED <<fin, syncVars>>

OrderNext == OrderClippings

SpecOrder == OrderInit /\ [][OrderNext]_vars

\* The key of the claim: (loc_start or 0, date or the minimum date)
ClaimedKey(x) ==
    <<IF x.loc_start = None THEN 0 ELSE x.loc_start,
      IF x.date = None THEN DateMin ELSE x.date>>

\* C21: the sequence link_notes_to_highlights returns holds every highlight
\* of the book and, beside them, only notes attached to no highlight; it is
\* ascending by (loc_start or 0, date or the minimum date); of two items with
\* equal keys a highlight stands before a standalone note; the notes nested
\* in a highlight are no items of the sequence
OutputOrder ==
    fout # <<>> =>
        LET out   == fout[1]
            notes == DedupedNotesOf(fin)
        IN  /\ Len(SelectSeq(out, LAMBDA c : c.type = "highlight"))
                  = Len(SelectSeq(fin, LAMBDA c : c.type = "highlight"))
            /\ \A k \in 1..Len(fin) :
                  fin[k].type = "highlight" =>
                      \E i \in 1..Len(out) : [out[i] EXCEPT !.notes = <<>>] = fin[k]
            /\ \A i \in 1..Len(out) :
                  out[i].type = "note" =>
                      /\ \E k \in 1..Len(notes) : notes[k] = out[i]
                      /\ ~Attached(out[i], out)
            /\ \A i, j \in 1..Len(out) :
                  i < j =>
                      /\ ClaimedKey(out[i])[1] <= ClaimedKey(out[j])[1]
                      /\ ClaimedKey(out[i])[1] = ClaimedKey(out[j])[1]
                             => ClaimedKey(out[i])[2] <= ClaimedKey(out[j])[2]
                      /\ ClaimedKey(out[i]) = ClaimedKey(out[j])
                             => ~(out[i].type = "note" /\ out[j].type = "highlight")

\* A note without location, a highlight without location of the same date
\* and a highlight at location 1 of an earlier date, given in this order, are
\* returned as highlight without location, note, highlight at 1
OutputOrderWitness ==
    /\ fout # <<>>
    /\ Len(fin) = 3
    /\ fin[1].type = "note" /\ fin[1].loc_start = None
    /\ fin[2].type = "highlight" /\ fin[2].loc_start = None
    /\ fin[3].type = "highlight" /\ fin[3].loc_start = 1 /\ fin[3].date = 1
    /\ Len(fout[1]) = 3
    /\ fout[1][1].type = "highlight" /\ fout[1][1].loc_start = None
    /\ fout[1][2].type = "note"
    /\ fout[1][3].loc_start = 1

(***************************************************************************)
(* Specification of write_book_file alone: the book parsed from a few      *)
(* segments, with highlights whose ranges overlap, is written to its file  *)
(***************************************************************************)
MaxOverlap == 3

\* Highlights at 1-3 and 2-4, which overlap, and at 5; a note at 2, inside
\* both, and a note at 4, inside the second alone
OverlapSegments ==
    { Segment(<<"A">>, "Highlight", <<1, 3>>, 1, <<"a">>),
      Segment(<<"A">>, "Highlight", <<2, 4>>, 2, <<"b">>),
      Segment(<<"A">>, "Highlight", <<5>>, 3, <<"c">>),
      Segment(<<"A">>, "Note", <<2>>, 4, <<"n">>),
      Segment(<<"A">>, "Note", <<4>>, 5, <<"m">>) }

OverlapInit ==
    /\ fin \in [segs : SeqsUpTo(OverlapSegments, MaxOverlap) \ {<<>>},
                existing_hashes : SUBSET {generate_hash(<<"a">>), generate_hash(<<"n">>)}]
    /\ fout = <<>>
    /\ SyncIdle

OverlapWrite ==
    /\ fout = <<>>
    /\ fout' = <<write_book_file(World(NoFiles, NoFiles, [out |-> FALSE, logs |-> FALSE], <<>>),
                                 parse_clippings(fin.segs)[1],
                                 fin.existing_hashes, NoConfig, FALSE)>>
    /\ UNCHANGED <<fin, syncVars>>

OverlapNext == OverlapWrite

SpecOverlap == OverlapInit /\ [][OverlapNext]_vars

\* The clippings of the book of the input
OverlapClippings == parse_clippings(fin.segs)[1].clippings

\* The highlights of the input, by index, whose range holds the note
HoldersOf(note, clips) ==
    {k \in 1..Len(clips) :
        /\ clips[k].type = "highlight"
        /\ ClaimedNotes(clips[k], <<note>>) # <<>>}

\* How often the marker of an identity stands in the files written
MarkerCount(files, hash) ==
    LET RECURSIVE Sum(_)
        Sum(S) == IF S = {} THEN 0
                  ELSE LET f == CHOOSE x \in S : TRUE
                       IN  Len(SelectSeq(files[f], LAMBDA l : l = Marker(hash)))
                           + Sum(S \ {f})
    IN  Sum(DOMAIN files)

\* C22: a note is nested under every highlight whose range holds its
\* loc_start, not under the first alone; and the marker and the quoted body
\* of a new note are written once for every new highlight that holds it,
\* twice when two new highlights overlap on it
OverlapNestsTwice ==
    fout # <<>> =>
        LET clips  == OverlapClippings
            linked == link_notes_to_highlights(clips)
            notes  == DedupedNotesOf(clips)
        IN  \A k \in 1..Len(notes) :
                /\ Cardinality({i \in 1..Len(linked) :
                                   /\ linked[i].type = "highlight"
                                   /\ \E j \in 1..Len(linked[i].notes) :
                                          linked[i].notes[j] = notes[k]})
                       = Cardinality(HoldersOf(notes[k], clips))
                /\ (notes[k].hash \notin fin.existing_hashes
                        /\ HoldersOf(notes[k], clips) # {}) =>
                       MarkerCount(fout[1].w.vault, notes[k].hash)
                           = Cardinality({h \in HoldersOf(notes[k], clips) :
                                             clips[h].hash \notin fin.existing_hashes})

\* The highlights at 1-3 and 2-4 and the note at 2, all new, have been
\* written: the marker of the note stands twice in the file
OverlapNestsTwiceWitness ==
    /\ fout # <<>>
    /\ fin.existing_hashes = {}
    /\ Len(fin.segs) = 3
    /\ {fin.segs[i][4].text : i \in 1..3} = {<<"a">>, <<"b">>, <<"n">>}
    /\ fout[1].new_count = 2
    /\ MarkerCount(fout[1].w.vault, generate_hash(<<"n">>)) = 2

(***************************************************************************)
(* Frontmatter                                                             *)
(***************************************************************************)

\* The frontmatter blocks the writers emit under the configuration of the
\* behaviour, for the authors of its books
FrontmatterBlocks ==
    {BookFrontmatter(cfg, author) : author \in {<<"x">>, <<"y">>, Unknown}}
    \cup {ShortNotesFrontmatter(cfg)}

\* The positions of a sequence of lines at which a frontmatter block begins
FrontmatterAt(lines) ==
    {p \in 1..Len(lines) :
        \E block \in FrontmatterBlocks :
            /\ p + Len(block) - 1 <= Len(lines)
            /\ SubSeq(lines, p, p + Len(block) - 1) = block}

\* The files the writers made: all but the note the user keeps
WrittenFiles == DOMAIN vault \ {<<"Notes", ".md">>}

\* C23: every own-file and the aggregate file hold exactly one frontmatter
\* block, at the start of the file; a step that appends to an existing file
\* adds no frontmatter block, and a step that makes a file begins it with
\* the block
FrontmatterOnce ==
    /\ [](\A name \in WrittenFiles : FrontmatterAt(vault[name]) = {1})
    /\ [][\A name \in DOMAIN vault' :
              IF name \in DOMAIN vault
              THEN FrontmatterAt(AddedLines(vault, vault', name)) = {}
              ELSE 1 \in FrontmatterAt(vault'[name])]_vars

\* A second live run has appended new clippings to a file the first run made
FrontmatterOnceWitness ==
    /\ runs = 2 /\ ~run.dry_run /\ ~prev.dry_run
    /\ prev.summary.new_highlights > 0
    /\ run.summary.new_highlights > 0
    /\ \E name \in WrittenFiles :
           /\ Len(SelectSeq(vault[name], LAMBDA l : l.k = Marker(<<>>).k)) >= 2
           /\ FrontmatterAt(vault[name]) = {1}
    /\ Cardinality(WrittenFiles) = 1

(***************************************************************************)
(* What a live run leaves unwritten                                        *)
(***************************************************************************)

\* The identities of the markers in the files of the output directory
MarkersOf(files) ==
    UNION {{files[name][i].t : i \in {j \in 1..Len(files[name]) :
                                          files[name][j].k = Marker(<<>>).k}} :
              name \in DOMAIN files}

\* The identities of the clippings that survive reconciliation: the items
\* link_notes_to_highlights returns and the notes nested under them
SurvivingHashes(books) ==
    UNION {LET linked == link_notes_to_highlights(books[b].clippings)
           IN  {linked[i].hash : i \in 1..Len(linked)}
               \cup UNION {{linked[i].notes[j].hash : j \in 1..Len(linked[i].notes)} :
                              i \in 1..Len(linked)} :
              b \in 1..Len(books)}

\* C24 as claimed: after a live run every clipping that survives
\* reconciliation of the input, nested notes included, has its marker in a
\* file of the output directory
NothingNewLost ==
    (runs >= 1 /\ ~run.dry_run /\ ~run.raised) =>
        SurvivingHashes(parse_clippings(RunInput)) \subseteq MarkersOf(vault)

(***************************************************************************)
(* Specification of the GUI's SyncFrame: clicks on the sync button, the    *)
(* background threads that run sync_highlights, and the callbacks they     *)
(* queue for Tk's main thread with self.after(0, ...)                      *)
(*                                                                         *)
(* gui.threads holds one record per thread started: where run_sync stands  *)
(* ("sync": inside sync_highlights, "except": inside the except block,     *)
(* where `e` is bound, "done"), whether sync_highlights raised, and        *)
(* whether _on_sync_finished has run for it.  gui.after is Tk's queue.     *)
(***************************************************************************)
MaxClicks == 3

GuiInit ==
    /\ gui = [is_syncing |-> FALSE, button |-> "normal", threads |-> <<>>,
              after |-> <<>>, errors |-> <<>>, callback_exceptions |-> 0,
              clicks |-> 0, ignored |-> 0]
    /\ fin = <<>>
    /\ fout = <<>>
    /\ CoreIdle

\* A variant that never takes the frame for busy
NeverBusy(is_syncing) == FALSE

\* Line 99: `if self._is_syncing: return`
Busy(is_syncing) == is_syncing

\* _set_ui_syncing: the state of the sync button
ButtonState(syncing) == IF syncing THEN "disabled" ELSE "normal"

\* _start_sync: the flag is set, the button disabled and the thread started
StartSync(g) ==
    [g EXCEPT !.is_syncing = TRUE,
              !.button = ButtonState(TRUE),
              !.threads = Append(@, [pc |-> "sync", raised |-> FALSE, finished |-> FALSE])]

\* _on_sync_click with the paths valid or not: a click while syncing returns
\* at once, a click with a path missing shows an error, any other starts a
\* sync
OnSyncClick ==
    /\ gui.clicks < MaxClicks
    /\ \E paths_valid \in BOOLEAN :
          gui' = IF Busy(gui.is_syncing)
                 THEN [gui EXCEPT !.clicks = @ + 1, !.ignored = @ + 1]
                 ELSE IF ~paths_valid
                 THEN [gui EXCEPT !.clicks = @ + 1]
                 ELSE [StartSync(gui) EXCEPT !.clicks = @ + 1]
    /\ UNCHANGED <<fin, fout, coreVars>>

\* run_sync, lines 141-151: sync_highlights returns and the thread queues
\* _on_sync_finished(result, None)
SyncReturns(t) ==
    /\ gui.threads[t].pc = "sync"
    /\ gui' = [gui EXCEPT !.threads[t].pc = "done",
                          !.after = Append(@, [thread |-> t, error |-> FALSE])]
    /\ UNCHANGED <<fin, fout, coreVars>>

\* run_sync, lines 153-154: sync_highlights raises and the thread, inside
\* the except block, queues a lambda that reads `e` when it is called
SyncRaises(t) ==
    /\ gui.threads[t].pc = "sync"
    /\ gui' = [gui EXCEPT !.threads[t].pc = "except",
                          !.threads[t].raised = TRUE,
                          !.after = Append(@, [thread |-> t, error |-> TRUE])]
    /\ UNCHANGED <<fin, fout, coreVars>>

\* The thread leaves the except block: Python unbinds `e` there
LeaveExcept(t) ==
    /\ gui.threads[t].pc = "except"
    /\ gui' = [gui EXCEPT !.threads[t].pc = "done"]
    /\ UNCHANGED <<fin, fout, coreVars>>

\* _on_sync_finished: the flag is cleared, the button enabled and, with an
\* error, the error text shown
OnSyncFinished(g, t, error) ==
    [g EXCEPT !.is_syncing = FALSE,
              !.button = ButtonState(FALSE),
              !.threads[t].finished = TRUE,
              !.errors = IF error THEN Append(@, t) ELSE @]

\* The main thread runs the first callback of Tk's queue.  The lambda of the
\* except block evaluates str(e): when the thread has left the except block
\* `e` is unbound, the lambda raises NameError, Tk reports the exception of
\* the callback and _on_sync_finished is not called
RunCallback ==
    /\ gui.after # <<>>
    /\ \E cb \in {Head(gui.after)} :
          gui' = IF cb.error /\ gui.threads[cb.thread].pc # "except"
                 THEN [gui EXCEPT !.after = Tail(@), !.callback_exceptions = @ + 1]
                 ELSE [OnSyncFinished(gui, cb.thread, cb.error) EXCEPT !.after = Tail(@)]
    /\ UNCHANGED <<fin, fout, coreVars>>

GuiNext ==
    \/ OnSyncClick
    \/ RunCallback
    \/ \E t \in 1..Len(gui.threads) : SyncReturns(t)
    \/ \E t \in 1..Len(gui.threads) : SyncRaises(t)
    \/ \E t \in 1..Len(gui.threads) : LeaveExcept(t)

SpecGui == GuiInit /\ [][GuiNext]_vars

\* The threads for which _on_sync_finished has not run yet
Unfinished == {t \in 1..Len(gui.threads) : ~gui.threads[t].finished}

\* C25: SyncFrame starts no second background thread while an earlier one
\* has not been reported finished: at most one thread is unreported at any
\* time, _is_syncing is true exactly while one is, and a click in that time
\* starts nothing
OneSyncAtATime ==
    /\ Cardinality(Unfinished) <= 1
    /\ gui.is_syncing <=> Unfinished # {}
    /\ gui.clicks >= gui.ignored + Len(gui.threads)

\* A click during the first sync started nothing, and a click after the
\* sync was reported finished started the second
OneSyncAtATimeWitness ==
    /\ gui.ignored >= 1
    /\ Len(gui.threads) = 2
    /\ gui.threads[1].finished
    /\ gui.is_syncing

\* C26 as claimed: after a background sync has ended, with a summary or with
\* an exception, _on_sync_finished runs on the main thread: when every
\* thread has ended and Tk's queue is empty, _is_syncing is false, the
\* button enabled and the error of every failed sync reported
LeavesSyncingState ==
    (gui.after = <<>> /\ \A t \in 1..Len(gui.threads) : gui.threads[t].pc = "done") =>
        /\ ~gui.is_syncing
        /\ gui.button = "normal"
        /\ \A t \in 1..Len(gui.threads) :
              gui.threads[t].raised => \E i \in 1..Len(gui.errors) : gui.errors[i] = t

(***************************************************************************)
(* Specification of one call of sync_highlights on a clippings file that   *)
(* is missing, cannot be read, or can be read                              *)
(***************************************************************************)
MaxInput == 2

\* A variant in which opening the file never fails
OpenNeverRaises(input_state) == FALSE

\* parser.py lines 44-45: open() raises FileNotFoundError for a missing file
\* and PermissionError for one the process may not read; f.read() raises
\* UnicodeDecodeError for bytes that are no UTF-8
OpenRaises(input_state) == input_state # "readable"

\* writer.py lines 368-376: sync_highlights on any input path.  The first
\* line is logged, then parse_clippings opens the file; its exception leaves
\* sync_highlights before scan_existing_hashes is called
sync_highlights_path(input_state, segs, w0, config, dry_run, now) ==
    IF OpenRaises(input_state)
    THEN [w |-> Raise(Log(w0, Line("Parsing clippings file...", <<>>, <<>>))),
          existing_hashes |-> {},
          summary |-> NoSummary]
    ELSE sync_highlights(segs, w0, config, dry_run, now)

\* The states of the input path and what the file holds: a missing file
\* holds nothing
Inputs ==
    [input_state : {"unreadable", "readable"}, segs : SeqsUpTo(Segments, MaxInput)]
        \cup {[input_state |-> "missing", segs |-> <<>>]}

InputInit ==
    /\ \E input \in Inputs, v \in InitialVaults, dry_run \in BOOLEAN :
          fin = [input |-> input, vault |-> v.vault, dirs |-> v.dirs,
                 config |-> NoConfig, dry_run |-> dry_run]
    /\ fout = <<>>
    /\ SyncIdle

InputSync ==
    /\ fout = <<>>
    /\ fout' = <<sync_highlights_path(fin.input.input_state, fin.input.segs,
                                      World(fin.vault, NoFiles, fin.dirs, <<>>),
                                      fin.config, fin.dry_run, 1)>>
    /\ UNCHANGED <<fin, syncVars>>

InputNext == InputSync

SpecInput == InputInit /\ [][InputNext]_vars

\* C27: when the clippings file is missing or cannot be read, sync_highlights
\* raises before the output directory is scanned or written: the directory,
\* its files and the import-log folder are as before the call, no summary is
\* returned and the scan was never announced
MissingInputRaises ==
    (fout # <<>> /\ fin.input.input_state # "readable") =>
        /\ fout[1].w.raised
        /\ fout[1].summary = NoSummary
        /\ fout[1].w.vault = fin.vault
        /\ fout[1].w.dirs = fin.dirs
        /\ fout[1].w.importLogs = NoFiles
        /\ \A i \in 1..Len(fout[1].w.log) :
              fout[1].w.log[i] # Line("Scanning existing files...", <<>>, <<>>)

\* A live run on an unreadable file that holds a highlight, against an
\* absent output directory, has raised
MissingInputRaisesWitness ==
    /\ fout # <<>>
    /\ fin.input.input_state = "unreadable"
    /\ fin.input.segs # <<>>
    /\ ~fin.dry_run
    /\ ~fin.dirs.out
    /\ fout[1].w.raised

(***************************************************************************)
(* The counts of the summary                                               *)
(***************************************************************************)

\* C28: in every summary sync_highlights returns, the parsed books are split
\* between own files and the aggregate file, so total_books = regular_books
\* + short_books, total_books is the number of the parsed books, and
\* total_books and new_highlights are numbers also when they are zero
SummaryPartition ==
    runs > 0 =>
        /\ run.summary.total_books = Len(parse_clippings(RunInput))
        /\ run.summary.total_books = run.summary.regular_books + run.summary.short_books
        /\ run.summary.total_books \in Nat
        /\ run.summary.new_highlights \in Nat
        /\ run.summary.regular_books \in Nat
        /\ run.summary.short_books \in Nat

\* A run on an empty file reported zeros, and the next run reported one book
\* with its own file and one in the aggregate file
SummaryPartitionWitness ==
    /\ runs = 2
    /\ prev.summary.total_books = 0
    /\ prev.summary.new_highlights = 0
    /\ run.summary.total_books = 2
    /\ run.summary.regular_books = 1
    /\ run.summary.short_books = 1

\* The number of elements of a sequence of numbers added up
RECURSIVE SumSeq(_)
SumSeq(ns) == IF ns = <<>> THEN 0 ELSE Head(ns) + SumSeq(Tail(ns))

\* The files of a directory in some order
RECURSIVE FileSeq(_)
FileSeq(names) ==
    IF names = {} THEN <<>>
    ELSE LET name == CHOOSE x \in names : TRUE
         IN  <<name>> \o FileSeq(names \ {name})

\* The markers of top-level clippings among the lines added to a file: a
\* top-level marker follows a rule, the marker of a nested note follows the
\* body of its highlight or the quoted body of another note
TopLevelMarkers(added) ==
    Cardinality({i \in 2..Len(added) :
                    added[i].k = Marker(<<>>).k /\ added[i - 1] = Rule})

\* The book headings among the lines added to a file
BookHeadings(added) ==
    Cardinality({i \in 1..Len(added) : added[i].k = "## "})

\* The top-level clippings written with a marker between two states of the
\* output directory
TopLevelWritten(before, after) ==
    LET names == FileSeq(DOMAIN after)
    IN  SumSeq([i \in 1..Len(names) |->
                   TopLevelMarkers(AddedLines(before, after, names[i]))])

\* The books that got a top-level clipping between two states of the output
\* directory: the headings added to the aggregate file and every other file
\* that got a top-level marker
BooksWritten(before, after) ==
    LET names == FileSeq(DOMAIN after)
    IN  SumSeq([i \in 1..Len(names) |->
                   LET added == AddedLines(before, after, names[i])
                   IN  IF BookHeadings(added) > 0 THEN BookHeadings(added)
                       ELSE IF TopLevelMarkers(added) > 0 THEN 1 ELSE 0])

\* The import log of the run just made holds the two counts
ImportLogCounts(logs, name, total_new, books) ==
    /\ name \in DOMAIN logs
    /\ \E i \in 1..Len(logs[name]) :
          logs[name][i] = Line("total_new: ", <<>>, <<total_new>>)
    /\ \E i \in 1..Len(logs[name]) :
          logs[name][i] = Line("books: ", <<>>, <<books>>)

\* C29 as claimed: in every run of sync_highlights, dry runs too,
\* new_highlights of the summary is the number of top-level clippings written
\* with a marker in that run, and the import log the run writes records that
\* number as total_new and the number of books that got a new top-level
\* clipping as books
CountsAgree ==
    [][runs' = runs + 1 =>
          /\ run'.summary.new_highlights = TopLevelWritten(vault, vault')
          /\ (~run'.dry_run
                /\ Get(cfg.create_import_log, TRUE) /\ run'.summary.new_highlights > 0) =>
                ImportLogCounts(importLogs', clock', run'.summary.new_highlights,
                                BooksWritten(vault, vault'))]_vars

\* C29 amended: in every live run new_highlights of the summary is the
\* number of top-level clippings written with a marker in that run, nested
\* notes not counted, and the import log the run writes records that number
\* as total_new and the number of books that got a new top-level clipping as
\* books; a dry run writes no marker whatever it reports
CountsAgreeLive ==
    [][runs' = runs + 1 =>
          IF run'.dry_run
          THEN TopLevelWritten(vault, vault') = 0
          ELSE /\ run'.summary.new_highlights = TopLevelWritten(vault, vault')
               /\ (Get(cfg.create_import_log, TRUE) /\ run'.summary.new_highlights > 0) =>
                     ImportLogCounts(importLogs', clock', run'.summary.new_highlights,
                                     BooksWritten(vault, vault'))]_vars

\* A live run wrote two top-level clippings of two books, one of them with a
\* nested note, and its import log
CountsAgreeLiveWitness ==
    /\ runs > 0
    /\ ~run.dry_run
    /\ run.summary.new_highlights = 2
    /\ ImportLogCounts(importLogs, clock, 2, 2)
    /\ \E name \in DOMAIN vault :
          \E i \in 2..Len(vault[name]) :
              /\ vault[name][i] = Marker(generate_hash(<<"n">>))
              /\ vault[name][i - 1] # Rule

(***************************************************************************)
(* Specification of one call of sync_highlights under a configuration      *)
(* with some of its keys absent                                            *)
(***************************************************************************)
MaxPrefix == 3

\* My Clippings.txt grows by these segments: three highlights of book A, a
\* highlight of book B, a note of B outside its highlight and a fourth
\* highlight of A
ConfigSegments ==
    << Segment(TitleAx, "Highlight", <<1, 2>>, 1, <<"a">>),
       Segment(TitleAx, "Highlight", <<3>>, 2, <<"b">>),
       Segment(TitleAx, "Highlight", <<5>>, 3, <<"c">>),
       Segment(TitleB, "Highlight", <<1>>, 1, <<"d">>),
       Segment(TitleB, "Note", <<7>>, 2, <<"n">>),
       Segment(TitleAx, "Highlight", <<8>>, 4, <<"e">>) >>

\* A value other than the default for every key
OtherValues ==
    [min_highlights_for_own_file |-> {1},
     short_notes_filename |-> {<<"Short", ".md">>},
     default_tag |-> {<<"lib">>},
     short_notes_tag |-> {<<"brief">>},
     import_log_folder |-> {<<"Logs">>},
     create_import_log |-> {FALSE},
     include_author |-> {FALSE},
     include_tags |-> {FALSE}]

\* The configuration that lacks the keys of `absent` and sets the others
Without(absent) ==
    [k \in DOMAIN NoConfig |-> IF k \in absent THEN {} ELSE OtherValues[k]]

\* Line 277: the folder of the import logs
ImportLogFolder(config) == Get(config.import_log_folder, <<"Import Logs">>)

\* One call against an absent output directory: what sync_highlights leaves
\* and returns, and the folder its import log goes to
ConfigRun(segs, config, dry_run) ==
    [result |-> sync_highlights(segs,
                                World(NoFiles, NoFiles, [out |-> FALSE, logs |-> FALSE], <<>>),
                                config, dry_run, 1),
     log_dir |-> ImportLogFolder(config)]

ConfigInit ==
    /\ \E n \in 0..MaxPrefix, absent \in SUBSET DOMAIN NoConfig, dry_run \in BOOLEAN :
          fin = [segs |-> SubSeq(ConfigSegments, 1, Min({n, Len(ConfigSegments)})),
                 config |-> Without(absent),
                 dry_run |-> dry_run]
    /\ fout = <<>>
    /\ SyncIdle

ConfigSync ==
    /\ fout = <<>>
    /\ fout' = <<ConfigRun(fin.segs, fin.config, fin.dry_run)>>
    /\ UNCHANGED <<fin, syncVars>>

ConfigNext == ConfigSync

SpecConfig == ConfigInit /\ [][ConfigNext]_vars

\* The defaults as documented
DocumentedDefaults ==
    [min_highlights_for_own_file |-> {3},
     short_notes_filename |-> {<<"Short Notes", ".md">>},
     default_tag |-> {<<"books">>},
     short_notes_tag |-> {<<"short-notes">>},
     import_log_folder |-> {<<"Import Logs">>},
     create_import_log |-> {TRUE},
     include_author |-> {TRUE},
     include_tags |-> {TRUE}]

\* The configuration with every absent key set to its documented default
Filled(config) ==
    [k \in DOMAIN config |-> IF config[k] = {} THEN DocumentedDefaults[k] ELSE config[k]]

\* C30: sync_highlights and the writer functions never fail because a
\* configuration key is missing: for every set of absent keys, the empty
\* record included, the run raises nothing and leaves and returns what it
\* does when every absent key is given its documented default
ConfigFallback ==
    fout # <<>> =>
        /\ ~fout[1].result.w.raised
        /\ fout[1] = ConfigRun(fin.segs, Filled(fin.config), fin.dry_run)

\* A live run under the empty record on two highlights of book A, one below
\* the threshold of 3, wrote them to `Short Notes.md` with both tags, and
\* wrote the import log
ConfigFallbackWitness ==
    /\ fout # <<>>
    /\ fin.config = NoConfig
    /\ ~fin.dry_run
    /\ Len(fin.segs) = 2
    /\ fout[1].result.summary.regular_books = 0
    /\ fout[1].result.summary.short_books = 1
    /\ fout[1].result.summary.import_log # <<>>
    /\ DOMAIN fout[1].result.w.vault = {<<"Short Notes", ".md">>}
    /\ \E i \in 1..Len(fout[1].result.w.vault[<<"Short Notes", ".md">>]) :
          fout[1].result.w.vault[<<"Short Notes", ".md">>][i] = TagLine(<<"short-notes">>)
    /\ \E i \in 1..Len(fout[1].result.w.vault[<<"Short Notes", ".md">>]) :
          fout[1].result.w.vault[<<"Short Notes", ".md">>][i] = TagLine(<<"books">>)
    /\ fout[1].log_dir = <<"Import Logs">>

====
